---- MODULE Spec2Model ----
(***************************************************************************)
(* The connection / request layer of the MCP inspector client: the React   *)
(* hook useConnection (client/src/utils/configUtils.ts).                   *)
(*                                                                         *)
(* The hook's state cells are the variables; every synchronous section of  *)
(* an async function (the code between two awaits) is one action.  The     *)
(* proxy, the MCP server, the SDK's auth() flow and the auth provider's    *)
(* storage are the environment: their answers are drawn with \E.           *)
(***************************************************************************)
EXTENDS Integers, Sequences, FiniteSets, TLC

\* ------------------------------------------------------------------ bounds
\* Clients created over a run: one per connect attempt, retries included.
MaxClients == 3
\* makeRequest / handleCompletion / sendNotification calls over a run.
MaxCalls == 2
\* Sessions opened over a run in which requests are studied.
MaxSessions == 2
\* Progress events a server sends for one request.
MaxProgress == 2
\* tools/list requests the chat tab issues over a run.
MaxToolsLists == 2
\* Messages the chat tab accepts over a run, and function calls the model asks
\* for in one response.
MaxSubmissions == 2
MaxFunctionCalls == 1

\* --------------------------------------------------------------- constants
SESSION_KEYS_SERVER_URL == "mcp_server_url"
MethodNotFound == -32601

TransportTypes == {"stdio", "sse", "streamableHttp"}
\* The third value is no absolute URL (new URL() throws on it) and is also the
\* literal name of the session-storage key.
Urls == {"https://a", "https://b", SESSION_KEYS_SERVER_URL}
BearerTokens == {"", "manual"}
ConnectionStatuses ==
    {"disconnected", "connected", "error", "error-connecting-to-proxy"}

NoClient == 0
NoUrl == ""
NoToken == [kind |-> "none", issuedFor |-> NoUrl]
ManualToken == [kind |-> "manual", issuedFor |-> NoUrl]
OAuthToken(u) == [kind |-> "oauth", issuedFor |-> u]
NoTransport ==
    [kind |-> "none", endpoint |-> NoUrl, transportType |-> "", url |-> NoUrl,
     stdioParams |-> FALSE, authorization |-> NoToken]
NoError == [cls |-> "none", code |-> 0]

VARIABLES
    \* ---- hook state (useState cells)
    connectionStatus,
    serverCapabilities,     \* "null" or "caps"
    mcpClient,              \* NoClient or a client id
    requestHistory,         \* sequence of [request, response]
    completionsSupported,
    \* ---- collaborators
    toasts,                 \* sequence of toasts issued through useToast
    authTokens,             \* token set held by authProvider
    storedServerUrl,        \* sessionStorage[SESSION_KEYS.SERVER_URL]
    sent,                   \* call ids whose message was handed to the client
    \* ---- the connect / disconnect call in progress
    ctl,                    \* position of the control call
    cprops,                 \* props captured by the closure of that call
    client,                 \* connect's local `client`
    retryCount,             \* connect's retryCount parameter
    attempts,               \* one record per connect attempt of this call
    nextClient,             \* clients created so far
    \* ---- makeRequest / handleCompletion / sendNotification calls
    calls,
    mnfReceived,            \* a completion lookup was answered MethodNotFound
                            \* since the last handshake that succeeded
    \* ---- the chat tab (ChatTab.tsx)
    chatTab                 \* its useState cells, its effect's last
                            \* dependencies and its submissions in progress

vars == << connectionStatus, serverCapabilities, mcpClient, requestHistory,
           completionsSupported, toasts, authTokens, storedServerUrl, sent,
           ctl, cprops, client, retryCount, attempts, nextClient, calls,
           mnfReceived, chatTab >>

hookState == << connectionStatus, serverCapabilities, mcpClient,
                requestHistory, completionsSupported >>
callState == << requestHistory, toasts, sent, calls, mnfReceived >>
authState == << authTokens, storedServerUrl >>

\* ------------------------------------------------------------------ props
\* onNotification, onStdErrNotification: the caller supplied that callback.
UseConnectionOptions ==
    [transportType : TransportTypes, sseUrl : Urls,
     bearerToken : BearerTokens, proxyAddressOk : BOOLEAN,
     onNotification : BOOLEAN, onStdErrNotification : BOOLEAN]

\* Every target, token and proxy address, from a caller that supplies both
\* notification callbacks.
Props ==
    {p \in UseConnectionOptions : p.onNotification /\ p.onStdErrNotification}

\* Every transport kind and every choice of callbacks, for one target.
HandlerProps ==
    {p \in UseConnectionOptions :
        p.sseUrl = "https://a" /\ p.bearerToken = "" /\ p.proxyAddressOk}

\* new URL(u) succeeds
ValidUrl(u) == u # SESSION_KEYS_SERVER_URL

\* ------------------------------------------------------------- positions
ConnectPcs == {"health", "tokens", "handshake", "auth", "close"}
RestPcs == {"idle", "connectDone", "connectThrew",
            "disconnectDone", "disconnectThrew"}

\* ---------------------------------------------------- notification handlers
\* The six notification schemas of lines 369-374, by method.
NamedNotifications ==
    {"notifications/cancelled", "notifications/message",
     "notifications/resources/updated", "notifications/resources/list_changed",
     "notifications/tools/list_changed", "notifications/prompts/list_changed"}
StdErrNotification == "notifications/stderr"
\* What a client can hold a handler for: a method, or the fallback.
HandlerSlots == NamedNotifications \cup {StdErrNotification, "fallback"}
NoHandlers == [slot \in HandlerSlots |-> "none"]

\* setNotificationHandlers without the fallback handler of lines 379-384.
setNotificationHandlersNoFallback(p) ==
    [slot \in HandlerSlots |->
        IF slot \in NamedNotifications
        THEN IF p.onNotification THEN "onNotification" ELSE "none"
        ELSE IF slot = StdErrNotification
        THEN IF p.onStdErrNotification THEN "onStdErrNotification" ELSE "none"
        ELSE "none"]

\* Lines 366-392: the handlers connect registers on its client.
setNotificationHandlers(p) ==
    [slot \in HandlerSlots |->
        IF slot \in NamedNotifications \cup {"fallback"}
        THEN IF p.onNotification THEN "onNotification" ELSE "none"
        ELSE IF p.onStdErrNotification THEN "onStdErrNotification" ELSE "none"]

\* Where the client hands a notification of `method`: to the handler of the
\* method, else to the fallback handler, else nowhere ("none": dropped).
NotificationRoute(handlers, method) ==
    IF method \in DOMAIN handlers /\ handlers[method] # "none"
    THEN handlers[method]
    ELSE handlers["fallback"]

\* --------------------------------------------------------------- attempts
FreshAttempt(c, st) ==
    [client |-> c, statusBefore |-> st, health |-> "none",
     healthResponse |-> "none", transport |-> NoTransport, handlers |-> NoHandlers,
     handshake |-> FALSE, error |-> NoError,
     negotiated |-> "none", auth |-> "none", outcome |-> "running"]

Cur == attempts[Len(attempts)]
SetCur(a) == [attempts EXCEPT ![Len(attempts)] = a]

\* ----------------------------------------------------- proxy health check
HealthResponses ==
    {"network-error", "malformed-body", "status-ok", "status-down", "no-status"}

\* What the health check got back: nothing was requested when the proxy
\* address is no URL (new URL throws at line 268).
HealthResponseSeen(proxyAddressOk, resp) ==
    IF proxyAddressOk THEN resp ELSE "not-sent"

\* checkProxyHealth that rejects only a body whose status says so.
checkProxyHealthUnlessDown(proxyAddressOk, resp) ==
    /\ proxyAddressOk
    /\ resp # "network-error"
    /\ resp # "malformed-body"
    /\ resp # "status-down"

\* checkProxyHealth resolves (TRUE) or rejects (FALSE)
checkProxyHealth(proxyAddressOk, resp) ==
    /\ proxyAddressOk               \* new URL(`${proxy}/health`)
    /\ resp # "network-error"       \* fetch
    /\ resp # "malformed-body"      \* proxyHealthResponse.json()
    /\ resp = "status-ok"           \* proxyHealth?.status !== "ok"

\* NeedsProxyHealth without the test of the transport kind.
NeedsProxyHealthAlways(transportType) == TRUE

\* if (transportType !== "streamableHttp") : line 315
NeedsProxyHealth(transportType) == transportType # "streamableHttp"

\* ------------------------------------------------------------------ errors
HandshakeErrors ==
    {[cls |-> "SseError", code |-> 401],
     [cls |-> "StreamableHttpError", code |-> 401],
     [cls |-> "SseError", code |-> 500],
     [cls |-> "Error", code |-> 401],
     [cls |-> "Error", code |-> 0]}

\* IsAuthRequired without the instanceof tests.
IsAuthRequiredAnyClass(error) == error.code = 401

IsAuthRequired(error) ==
    /\ error.cls \in {"SseError", "StreamableHttpError"}
    /\ error.code = 401


\* ------------------------------------------------------------ auth provider
\* authProvider.tokens(): the stored token set
AuthProviderTokens == authTokens
\* authProvider.clear(): forget the stored token set
AuthProviderClear == NoToken
\* auth(authProvider, {serverUrl}) resolving "AUTHORIZED" has saved a token set
\* obtained from serverUrl's authorization server
AuthSaveTokens(serverUrl) == OAuthToken(serverUrl)
AuthResults == {"AUTHORIZED", "REDIRECT"}

\* ---------------------------------------------------------------- chat tab
\* ChatTab on mount: lines 169-193, and googleAI of line 44.  effect: whether
\* the effect of lines 252-335 has run, and the dependencies it last ran with;
\* lastMessage: the role of the last entry of messages, which is all of the
\* list that the handlers branch on ("error": the assistant's error message);
\* toolsList: the tools/list requests it has issued, with their session;
\* ignoredSubmit: handleSubmit has turned a submit away while isLoading.
ChatTabInit ==
    [input |-> "", isLoading |-> FALSE, toolsLoaded |-> FALSE,
     tools |-> "none", googleAI |-> FALSE, lastMessage |-> "none",
     effect |-> [ran |-> FALSE,
                 deps |-> [connectionStatus |-> "disconnected",
                           mcpClient |-> NoClient,
                           makeRequest |-> << "disconnected", "null", NoClient,
                                              << >>, TRUE >>,
                           toolsLoaded |-> FALSE]],
     toolsList |-> {}, submissions |-> << >>, ignoredSubmit |-> FALSE]

\* -------------------------------------------------------------------- Init
Init ==
    /\ connectionStatus = "disconnected"
    /\ serverCapabilities = "null"
    /\ mcpClient = NoClient
    /\ requestHistory = << >>
    /\ completionsSupported = TRUE
    /\ toasts = << >>
    /\ authTokens = NoToken
    /\ storedServerUrl = NoUrl
    /\ sent = {}
    /\ ctl = "idle"
    /\ cprops = [transportType |-> "stdio", sseUrl |-> "https://a",
                 bearerToken |-> "", proxyAddressOk |-> TRUE,
                 onNotification |-> TRUE, onStdErrNotification |-> TRUE]
    /\ client = NoClient
    /\ retryCount = 0
    /\ attempts = << >>
    /\ nextClient = 0
    /\ calls = << >>
    /\ mnfReceived = FALSE
    /\ chatTab = ChatTabInit

\* ----------------------------------------------------------------- connect
\* EnterConnect in which a retry resumes at the token lookup, without the
\* health check.
EnterConnectRetrySkipsHealth(p, rc, prior) ==
    /\ nextClient < MaxClients
    /\ nextClient' = nextClient + 1
    /\ client' = nextClient + 1
    /\ retryCount' = rc
    /\ cprops' = p
    /\ attempts' = Append(prior, FreshAttempt(nextClient + 1, connectionStatus))
    /\ ctl' = IF rc = 0 /\ NeedsProxyHealth(p.transportType)
              THEN "health" ELSE "tokens"

\* Entry of connect(_e, retryCount): lines 298-315.  A new Client is made and
\* the first await is the health check (proxied kinds) or the token lookup.
EnterConnect(p, rc, prior) ==
    /\ nextClient < MaxClients
    /\ nextClient' = nextClient + 1
    /\ client' = nextClient + 1
    /\ retryCount' = rc
    /\ cprops' = p
    /\ attempts' = Append(prior, FreshAttempt(nextClient + 1, connectionStatus))
    /\ ctl' = IF NeedsProxyHealth(p.transportType) THEN "health" ELSE "tokens"

\* connect() called by the UI with the props of the current render.
ConnectWith(propsSet, maxClients) ==
    /\ ctl \in RestPcs
    /\ nextClient < maxClients
    /\ \E p \in propsSet : EnterConnect(p, 0, << >>)
    /\ UNCHANGED << hookState, callState, authState >>
    /\ UNCHANGED chatTab

ConnectStart == ConnectWith(Props, MaxClients)

ConnectStartForHandlers == ConnectWith(HandlerProps, MaxClients)

\* The props of the renders in which requests are studied: one server, reached
\* directly with a manually entered bearer token.
RequestProps ==
    {[transportType |-> "streamableHttp", sseUrl |-> "https://a",
      bearerToken |-> "manual", proxyAddressOk |-> TRUE,
      onNotification |-> TRUE, onStdErrNotification |-> TRUE]}

ConnectStartForRequests == ConnectWith(RequestProps, MaxSessions)

\* try { await checkProxyHealth() } resolved
HealthPassed(response) ==
    /\ attempts' = SetCur([Cur EXCEPT !.health = "ok",
                                      !.healthResponse = response])
    /\ ctl' = "tokens"
    /\ UNCHANGED connectionStatus

\* HealthFailed without its `return`: the status is set and connect goes on.
HealthFailedNoReturn(response) ==
    /\ attempts' = SetCur([Cur EXCEPT !.health = "fail",
                                      !.healthResponse = response])
    /\ connectionStatus' = "error-connecting-to-proxy"
    /\ ctl' = "tokens"

\* catch { setConnectionStatus("error-connecting-to-proxy"); return }
HealthFailed(response) ==
    /\ attempts' = SetCur([Cur EXCEPT !.health = "fail",
                                      !.healthResponse = response,
                                      !.outcome = "proxy-fail"])
    /\ connectionStatus' = "error-connecting-to-proxy"
    /\ ctl' = "connectDone"

ConnectHealth ==
    /\ ctl = "health"
    /\ \E resp \in HealthResponses :
          IF checkProxyHealth(cprops.proxyAddressOk, resp)
          THEN HealthPassed(HealthResponseSeen(cprops.proxyAddressOk, resp))
          ELSE HealthFailed(HealthResponseSeen(cprops.proxyAddressOk, resp))
    /\ UNCHANGED << serverCapabilities, mcpClient, requestHistory,
                    completionsSupported, toasts, sent, calls, mnfReceived,
                    authState,
                    cprops, client, retryCount, nextClient >>
    /\ UNCHANGED chatTab

\* TokenFor in which a stored OAuth token goes before the manual token.
TokenForOAuthFirst(p) ==
    IF AuthProviderTokens # NoToken THEN AuthProviderTokens
    ELSE IF p.bearerToken # "" THEN ManualToken ELSE NoToken

\* const token = bearerToken || (await authProvider.tokens())?.access_token
TokenFor(p) ==
    IF p.bearerToken # "" THEN ManualToken ELSE AuthProviderTokens

\* The headers a StreamableHttpClientTransport built with { headers } puts on
\* its requests: the ones it was given.
StreamableHttpTransportHeaders(headers) == headers

\* BuildTransport in which the url parameter is appended for stdio too.
BuildTransportUrlAlways(p, token) ==
    IF p.transportType = "streamableHttp"
    THEN [kind |-> "StreamableHttpTransport", endpoint |-> p.sseUrl,
          transportType |-> "", url |-> NoUrl, stdioParams |-> FALSE,
          authorization |-> StreamableHttpTransportHeaders(token)]
    ELSE [kind |-> "SSEClientTransport", endpoint |-> "proxy/sse",
          transportType |-> p.transportType,
          url |-> p.sseUrl,
          stdioParams |-> (p.transportType = "stdio"),
          authorization |-> token]

\* The transport connect builds: lines 332-364.
BuildTransport(p, token) ==
    IF p.transportType = "streamableHttp"
    THEN [kind |-> "StreamableHttpTransport", endpoint |-> p.sseUrl,
          transportType |-> "", url |-> NoUrl, stdioParams |-> FALSE,
          authorization |-> StreamableHttpTransportHeaders(token)]
    ELSE [kind |-> "SSEClientTransport", endpoint |-> "proxy/sse",
          transportType |-> p.transportType,
          url |-> IF p.transportType = "stdio" THEN NoUrl ELSE p.sseUrl,
          stdioParams |-> (p.transportType = "stdio"),
          authorization |-> token]

\* Does building the transport throw, and is the throw caught (try at 336)?
TransportThrows(p) ==
    IF p.transportType = "streamableHttp"
    THEN ~ValidUrl(p.sseUrl)
    ELSE ~p.proxyAddressOk
\* TransportThrowCaught with the try of lines 336-343 lost.
TransportThrowCaughtNever(p) == FALSE

TransportThrowCaught(p) == p.transportType = "streamableHttp"

\* Lines 324-396: after the token lookup, build the transport, register the
\* handlers and start the handshake (await client.connect).
ConnectTokens ==
    /\ ctl = "tokens"
    /\ \E tokensThrow \in BOOLEAN :
        IF tokensThrow /\ cprops.bearerToken = ""
        THEN /\ attempts' = SetCur([Cur EXCEPT !.outcome = "tokens-threw"])
             /\ ctl' = "connectThrew"
             /\ UNCHANGED connectionStatus
        ELSE IF TransportThrows(cprops)
        THEN IF TransportThrowCaught(cprops)
             THEN /\ attempts' =
                        SetCur([Cur EXCEPT !.outcome = "transport-fail"])
                  /\ connectionStatus' = "error"
                  /\ ctl' = "connectDone"
             ELSE /\ attempts' =
                        SetCur([Cur EXCEPT !.outcome = "transport-threw"])
                  /\ ctl' = "connectThrew"
                  /\ UNCHANGED connectionStatus
        ELSE /\ attempts' = SetCur([Cur EXCEPT
                    !.transport = BuildTransport(cprops, TokenFor(cprops)),
                    !.handlers = setNotificationHandlers(cprops),
                    !.handshake = TRUE])
             /\ ctl' = "handshake"
             /\ UNCHANGED connectionStatus
    /\ UNCHANGED << serverCapabilities, mcpClient, requestHistory,
                    completionsSupported, toasts, sent, calls, mnfReceived,
                    authState,
                    cprops, client, retryCount, nextClient >>
    /\ UNCHANGED chatTab

\* What client.getServerCapabilities() can return once the handshake is done.
NegotiatedCapabilities == {"undefined", "caps"}

\* capabilities ?? null : line 422
OrNull(capabilities) ==
    IF capabilities = "undefined" THEN "null" ELSE capabilities

\* PostConnect without setCompletionsSupported(true), line 423.
PostConnectKeepsFlag(caps, setupThrows) ==
    /\ serverCapabilities' = OrNull(caps)
    /\ UNCHANGED << completionsSupported, mnfReceived >>
    /\ IF setupThrows
       THEN /\ connectionStatus' = "error"
            /\ ctl' = "close"
            /\ attempts' = SetCur([Cur EXCEPT !.negotiated = caps,
                                              !.outcome = "setup-fail"])
            /\ UNCHANGED mcpClient
       ELSE /\ mcpClient' = client
            /\ connectionStatus' = "connected"
            /\ ctl' = "connectDone"
            /\ attempts' = SetCur([Cur EXCEPT !.negotiated = caps,
                                              !.outcome = "connected"])
    /\ UNCHANGED << authState, cprops, client, retryCount, nextClient >>

\* Post-connection setup, lines 419-446.  caps: what the client negotiated.
PostConnect(caps, setupThrows) ==
    /\ serverCapabilities' = OrNull(caps)
    /\ completionsSupported' = TRUE
    /\ mnfReceived' = FALSE
    /\ IF setupThrows
       THEN /\ connectionStatus' = "error"
            /\ ctl' = "close"
            /\ attempts' = SetCur([Cur EXCEPT !.negotiated = caps,
                                              !.outcome = "setup-fail"])
            /\ UNCHANGED mcpClient
       ELSE /\ mcpClient' = client
            /\ connectionStatus' = "connected"
            /\ ctl' = "connectDone"
            /\ attempts' = SetCur([Cur EXCEPT !.negotiated = caps,
                                              !.outcome = "connected"])
    /\ UNCHANGED << authState, cprops, client, retryCount, nextClient >>

\* handleAuthError up to its await: lines 285-291.
HandleAuthErrorBegin(error) ==
    /\ authTokens' = IF SESSION_KEYS_SERVER_URL # cprops.sseUrl
                     THEN AuthProviderClear
                     ELSE authTokens
    /\ storedServerUrl' = cprops.sseUrl
    /\ attempts' = SetCur([Cur EXCEPT !.error = error, !.auth = "pending"])
    /\ ctl' = "auth"
    /\ UNCHANGED << hookState, cprops, client, retryCount, nextClient >>

\* AfterAuthCheck that never retries: `if (shouldRetry) return connect(...)` lost.
AfterAuthCheckNoRetry(shouldRetry, error, att) ==
    IF IsAuthRequired(error)
    THEN /\ attempts' = SetCur([att EXCEPT !.outcome = "401-redirect"])
         /\ ctl' = "connectDone"
         /\ UNCHANGED << hookState, cprops, client, retryCount, nextClient >>
    ELSE /\ attempts' = SetCur([att EXCEPT !.outcome = "handshake-fail"])
         /\ connectionStatus' = "error"
         /\ ctl' = "connectDone"
         /\ UNCHANGED << serverCapabilities, mcpClient, requestHistory,
                         completionsSupported, cprops, client, retryCount,
                         nextClient >>

\* AfterAuthCheck without the 401 test of lines 409-412: every handshake
\* failure that is not retried sets the error status.
AfterAuthCheckNo401Return(shouldRetry, error, att) ==
    IF shouldRetry
    THEN /\ EnterConnect(cprops, retryCount + 1,
                         SetCur([att EXCEPT !.outcome = "401-authorized"]))
         /\ UNCHANGED hookState
    ELSE /\ attempts' = SetCur([att EXCEPT !.outcome =
                IF IsAuthRequired(error) THEN "401-redirect"
                                         ELSE "handshake-fail"])
         /\ connectionStatus' = "error"
         /\ ctl' = "connectDone"
         /\ UNCHANGED << serverCapabilities, mcpClient, requestHistory,
                         completionsSupported, cprops, client, retryCount,
                         nextClient >>

\* Lines 405-416, once handleAuthError has answered shouldRetry.
AfterAuthCheck(shouldRetry, error, att) ==
    IF shouldRetry
    THEN /\ EnterConnect(cprops, retryCount + 1,
                         SetCur([att EXCEPT !.outcome = "401-authorized"]))
         /\ UNCHANGED hookState
    ELSE IF IsAuthRequired(error)
    THEN /\ attempts' = SetCur([att EXCEPT !.outcome = "401-redirect"])
         /\ ctl' = "connectDone"
         /\ UNCHANGED << hookState, cprops, client, retryCount, nextClient >>
    ELSE /\ attempts' = SetCur([att EXCEPT !.outcome = "handshake-fail"])
         /\ connectionStatus' = "error"
         /\ ctl' = "connectDone"
         /\ UNCHANGED << serverCapabilities, mcpClient, requestHistory,
                         completionsSupported, cprops, client, retryCount,
                         nextClient >>

\* await client.connect(clientTransport) settles: lines 394-417.
HandshakeSettles(errors, capsSet) ==
    /\ ctl = "handshake"
    /\ \/ \E caps \in capsSet, setupThrows \in BOOLEAN :
            /\ PostConnect(caps, setupThrows)
            /\ UNCHANGED requestHistory
       \/ /\ \E error \in errors :
               IF IsAuthRequired(error)
               THEN HandleAuthErrorBegin(error)
               ELSE /\ AfterAuthCheck(FALSE, error, [Cur EXCEPT !.error = error])
                    /\ UNCHANGED authState
          /\ UNCHANGED mnfReceived
    /\ UNCHANGED << toasts, sent, calls >>
    /\ UNCHANGED chatTab

ConnectHandshake == HandshakeSettles(HandshakeErrors, NegotiatedCapabilities)

\* The handshake against a server that asks for no authorization.
ConnectHandshakeNoAuth ==
    HandshakeSettles({[cls |-> "Error", code |-> 0]}, {"caps"})

\* handleAuthErrorReturns that answers true whatever auth() resolved with.
handleAuthErrorReturnsAlways(error, result) == IsAuthRequired(error)

\* What handleAuthError returns, auth() having resolved with `result` if it
\* was called: lines 285, 292 and 295.
handleAuthErrorReturns(error, result) ==
    IF IsAuthRequired(error) THEN result = "AUTHORIZED" ELSE FALSE

\* await auth(authProvider, {serverUrl: sseUrl}) settles: lines 291-292.
ConnectAuth ==
    /\ ctl = "auth"
    /\ \/ \E result \in AuthResults :
            /\ authTokens' = IF result = "AUTHORIZED"
                             THEN AuthSaveTokens(cprops.sseUrl)
                             ELSE authTokens
            /\ AfterAuthCheck(handleAuthErrorReturns(Cur.error, result),
                              Cur.error, [Cur EXCEPT !.auth = result])
       \/ /\ attempts' = SetCur([Cur EXCEPT !.auth = "threw",
                                            !.outcome = "auth-threw"])
          /\ ctl' = "connectThrew"
          /\ UNCHANGED << hookState, authTokens, cprops, client, retryCount,
                          nextClient >>
    /\ UNCHANGED << storedServerUrl, callState >>
    /\ UNCHANGED chatTab

\* await client.close() after a failed setup settles: lines 444-445.
ConnectClose ==
    /\ ctl = "close"
    /\ \E closeThrows \in BOOLEAN :
        IF closeThrows
        THEN /\ ctl' = "connectThrew"
             /\ UNCHANGED mcpClient
        ELSE /\ mcpClient' = NoClient
             /\ ctl' = "connectDone"
    /\ UNCHANGED << connectionStatus, serverCapabilities, requestHistory,
                    completionsSupported, toasts, sent, calls, mnfReceived,
                    authState,
                    cprops, client, retryCount, attempts, nextClient >>
    /\ UNCHANGED chatTab

\* -------------------------------------------------------------- disconnect
\* disconnect up to `await mcpClient?.close()`: the closure's mcpClient.
DisconnectStart ==
    /\ ctl \in RestPcs
    /\ ctl' = "disconnecting"
    /\ client' = mcpClient
    /\ attempts' = << >>
    /\ retryCount' = 0
    /\ UNCHANGED << hookState, callState, authState, cprops, nextClient >>
    /\ UNCHANGED chatTab

\* DisconnectFinish putting the completion flag back to its initial value.
DisconnectFinishRestoresFlag ==
    /\ ctl = "disconnecting"
    /\ \E closeThrows \in BOOLEAN :
        IF closeThrows /\ client # NoClient
        THEN /\ ctl' = "disconnectThrew"
             /\ UNCHANGED hookState
        ELSE /\ mcpClient' = NoClient
             /\ connectionStatus' = "disconnected"
             /\ completionsSupported' = TRUE
             /\ serverCapabilities' = "null"
             /\ ctl' = "disconnectDone"
             /\ UNCHANGED requestHistory
    /\ UNCHANGED << toasts, sent, calls, mnfReceived, authState, cprops,
                    client, retryCount, attempts, nextClient >>
    /\ UNCHANGED chatTab

\* Lines 450-454.
DisconnectFinish ==
    /\ ctl = "disconnecting"
    /\ \E closeThrows \in BOOLEAN :
        IF closeThrows /\ client # NoClient
        THEN /\ ctl' = "disconnectThrew"
             /\ UNCHANGED hookState
        ELSE /\ mcpClient' = NoClient
             /\ connectionStatus' = "disconnected"
             /\ completionsSupported' = FALSE
             /\ serverCapabilities' = "null"
             /\ ctl' = "disconnectDone"
             /\ UNCHANGED requestHistory
    /\ UNCHANGED << toasts, sent, calls, mnfReceived, authState, cprops,
                    client, retryCount, attempts, nextClient >>
    /\ UNCHANGED chatTab

\* ---------------------------------------------------------------- requests
\* What mcpClient.request / mcpClient.notification can reject with.  The code
\* tells rejections apart by class (McpError or not) and by code only: a network
\* failure, an aborted signal and a result that fails the schema are all
\* rejections that are no McpError.
RequestErrors ==
    {[cls |-> "McpError", code |-> MethodNotFound, msg |-> "method not found"],
     [cls |-> "McpError", code |-> -32001, msg |-> "timed out"],
     [cls |-> "Error", code |-> 0, msg |-> "failed"]}
NotConnected == [cls |-> "Error", code |-> 0, msg |-> "MCP client not connected"]
NoFailure == [cls |-> "none", code |-> 0, msg |-> ""]

IsMethodNotFound(e) == e.cls = "McpError" /\ e.code = MethodNotFound

\* RequestSignal that never hands the caller's signal on.
RequestSignalOwn(callerSignal) == "own"

\* signal: options?.signal ?? abortController.signal : line 142.  The signal
\* the client is given: the caller's, or that of makeRequest's own controller,
\* which nothing ever aborts.
RequestSignal(callerSignal) == IF callerSignal THEN "caller" ELSE "own"

\* What a request whose signal was aborted is rejected with: the abort reason.
AbortRejection == [cls |-> "Error", code |-> 0, msg |-> "aborted"]

\* options?.resetTimeoutOnProgress as the caller can pass it.
ResetOptions == {"undefined", "true", "false"}

\* EffectiveResetTimeoutOnProgress with || in place of ??.
EffectiveResetTimeoutOnProgressOr(option, configValue) ==
    option = "true" \/ configValue

\* options?.resetTimeoutOnProgress ?? resetRequestTimeoutOnProgress(config) :
\* lines 143-145
EffectiveResetTimeoutOnProgress(option, configValue) ==
    IF option = "undefined" THEN configValue ELSE option = "true"

\* if (mcpRequestOptions.resetTimeoutOnProgress) onprogress = ... : line 154
OnProgressInstalled(resetTimeoutOnProgress) == resetTimeoutOnProgress

\* What the onprogress hook of lines 155-163 hands to onNotification for the
\* progress event `params`, as a sequence: nothing without the callback.
onprogress(onNotification, params) ==
    IF onNotification
    THEN << [method |-> "notification/progress", params |-> params] >>
    ELSE << >>

\* A call and the render's state its closure captured.  callerSignal: the
\* caller passed a cancellation signal; aborted: it has aborted that signal.
\* resetOption, configReset: the per-call option and the config value;
\* onNotification: the render's props hold that callback; progress: progress
\* events the server has sent for the request; forwarded: what onNotification
\* was called with for them.
NewCall(kind, suppressToast, callerSignal) ==
    [kind |-> kind, suppressToast |-> suppressToast,
     callerSignal |-> callerSignal, signal |-> RequestSignal(callerSignal),
     aborted |-> FALSE,
     resetOption |-> "undefined", configReset |-> FALSE,
     resetTimeoutOnProgress |->
         EffectiveResetTimeoutOnProgress("undefined", FALSE),
     onprogress |->
         OnProgressInstalled(EffectiveResetTimeoutOnProgress("undefined", FALSE)),
     onNotification |-> TRUE, progress |-> 0, forwarded |-> << >>,
     requestHistory |-> requestHistory,
     st |-> "inflight", rejection |-> NoFailure, error |-> NoFailure,
     value |-> "none"]

\* The call has settled: the request was answered `rejection` (NoFailure: a
\* result), the call returned v or threw e.
Settled(c, st, rejection, e, v) ==
    [c EXCEPT !.st = st, !.rejection = rejection, !.error = e, !.value = v,
              !.requestHistory = << >>]

Request(id, kind) ==
    [id |-> id,
     method |-> CASE kind = "makeRequest" -> "tools/call"
                  [] kind = "handleCompletion" -> "completion/complete"
                  [] OTHER -> "notifications/roots/list_changed"]

\* pushHistory appending to the history its closure captured,
\* setRequestHistory([...requestHistory, record]), instead of to the latest one.
pushHistoryStale(prev, c, request, response) ==
    Append(c.requestHistory, [request |-> request, response |-> response])

\* pushHistory, lines 119-127: setRequestHistory((prev) => [...prev, record])
pushHistory(prev, c, request, response) ==
    Append(prev, [request |-> request, response |-> response])

Toast(id, by, e) == [id |-> id, by |-> by, description |-> e.msg]

\* makeRequest once mcpClient.request has settled (lines 166-189): the history
\* and the toasts it leaves.  outcome is NoFailure or the rejection.
\* makeRequestHistory without the pushHistory of the catch at line 174.
makeRequestHistorySuccessOnly(prev, c, id, outcome) ==
    IF outcome = NoFailure
    THEN pushHistory(prev, c, Request(id, c.kind), "result")
    ELSE prev

makeRequestHistory(prev, c, id, outcome) ==
    IF outcome = NoFailure
    THEN pushHistory(prev, c, Request(id, c.kind), "result")
    ELSE pushHistory(prev, c, Request(id, c.kind), outcome.msg)

\* makeRequestToasts without the toast of lines 182-186.
makeRequestToastsNever(tsts, c, id, outcome) == tsts

\* makeRequestToasts without the test of options.suppressToast.
makeRequestToastsAlways(tsts, c, id, outcome) ==
    IF outcome # NoFailure
    THEN Append(tsts, Toast(id, "makeRequest", outcome))
    ELSE tsts

makeRequestToasts(tsts, c, id, outcome) ==
    IF outcome # NoFailure /\ ~c.suppressToast
    THEN Append(tsts, Toast(id, "makeRequest", outcome))
    ELSE tsts

ctlState == << ctl, cprops, client, retryCount, attempts, nextClient >>

\* HasNoSession with the test of line 134 lost.
HasNoSessionNever(mcpClientNow) == FALSE

\* if (!mcpClient) : line 134
HasNoSession(mcpClientNow) == mcpClientNow = NoClient

\* makeRequest up to `await mcpClient.request(...)`: lines 134-168.
\* makeRequest of the render that held mcpClientSeen up to the request.
MakeRequestCallOn(c, mcpClientSeen) ==
    LET id == Len(calls) + 1
    IN  IF HasNoSession(mcpClientSeen)
        THEN /\ calls' = Append(calls,
                    Settled(c, "threw", NoFailure, NotConnected, "none"))
             /\ UNCHANGED sent
        ELSE /\ calls' = Append(calls, c)
             /\ sent' = sent \cup {id}

MakeRequestCall(c) == MakeRequestCallOn(c, mcpClient)

MakeRequestWith(callerSignals) ==
    /\ Len(calls) < MaxCalls
    /\ \E suppressToast \in BOOLEAN, callerSignal \in callerSignals :
          MakeRequestCall(NewCall("makeRequest", suppressToast, callerSignal))
    /\ UNCHANGED << connectionStatus, serverCapabilities, mcpClient,
                    requestHistory, completionsSupported, toasts, mnfReceived,
                    authState, ctlState >>
    /\ UNCHANGED chatTab

\* The request options of lines 141-164 for a call made with the per-call
\* option `option`, under a config holding configValue, from a render whose
\* props hold onNotification or not.
WithProgressOptions(c, option, configValue, onNotification) ==
    [c EXCEPT !.resetOption = option, !.configReset = configValue,
              !.resetTimeoutOnProgress =
                  EffectiveResetTimeoutOnProgress(option, configValue),
              !.onprogress = OnProgressInstalled(
                  EffectiveResetTimeoutOnProgress(option, configValue)),
              !.onNotification = onNotification]

\* The first call of a run, made with every choice of the progress option,
\* config and callback.
MakeRequestStartWithOptions ==
    /\ calls = << >>
    /\ \E option \in ResetOptions, configValue \in BOOLEAN,
          onNotification \in BOOLEAN :
          MakeRequestCall(WithProgressOptions(
              NewCall("makeRequest", FALSE, FALSE),
              option, configValue, onNotification))
    /\ UNCHANGED << connectionStatus, serverCapabilities, mcpClient,
                    requestHistory, completionsSupported, toasts, mnfReceived,
                    authState, ctlState >>
    /\ UNCHANGED chatTab

\* The server sends a progress event for a request in flight: the client
\* calls the request's onprogress hook, if one was installed.
ProgressArrives ==
    /\ \E id \in DOMAIN calls :
        LET c == calls[id] IN
        /\ c.kind = "makeRequest"
        /\ c.st = "inflight"
        /\ c.progress < MaxProgress
        /\ calls' = [calls EXCEPT ![id] =
              [c EXCEPT !.progress = c.progress + 1,
                        !.forwarded =
                            IF c.onprogress
                            THEN c.forwarded \o
                                 onprogress(c.onNotification, c.progress + 1)
                            ELSE c.forwarded]]
    /\ UNCHANGED << hookState, toasts, sent, mnfReceived, authState, ctlState >>
    /\ UNCHANGED chatTab

\* Calls that pass no cancellation signal.
MakeRequestStart == MakeRequestWith({FALSE})

\* Calls that pass a cancellation signal of their own.
MakeRequestStartWithSignal == MakeRequestWith({TRUE})

\* The caller aborts the signal it passed to a call that is in flight.
AbortSignal ==
    /\ \E id \in DOMAIN calls :
        /\ calls[id].st = "inflight"
        /\ calls[id].callerSignal
        /\ ~calls[id].aborted
        /\ calls' = [calls EXCEPT ![id].aborted = TRUE]
    /\ UNCHANGED << hookState, toasts, sent, mnfReceived, authState, ctlState >>
    /\ UNCHANGED chatTab

\* SignalAborted for calls that share one abort signal: the abort of any call
\* aborts them all.
SignalAbortedShared(c) ==
    c.signal = "caller" /\ \E id \in DOMAIN calls : calls[id].aborted

\* The client was given a signal that has been aborted: the request is
\* rejected with the abort reason and a later answer is ignored.
SignalAborted(c) == c.signal = "caller" /\ c.aborted

\* How `await mcpClient.request(...)` can settle for call c.
RequestOutcomes(c) ==
    IF SignalAborted(c) THEN {AbortRejection}
                        ELSE {NoFailure} \cup RequestErrors

\* `await mcpClient.request(...)` of call id settles: lines 168-189.
MakeRequestSettles(id) ==
    /\ \E outcome \in RequestOutcomes(calls[id]) :
        LET c == calls[id] IN
        /\ c.kind = "makeRequest"
        /\ c.st = "inflight"
        /\ requestHistory' = makeRequestHistory(requestHistory, c, id, outcome)
        /\ toasts' = makeRequestToasts(toasts, c, id, outcome)
        /\ calls' = [calls EXCEPT ![id] =
                IF outcome = NoFailure
                THEN Settled(c, "returned", outcome, NoFailure, "result")
                ELSE Settled(c, "threw", outcome, outcome, "none")]
    /\ UNCHANGED << connectionStatus, serverCapabilities, mcpClient,
                    completionsSupported, sent, mnfReceived, authState,
                    ctlState >>

\* The call is a tools/list request the chat tab's effect is waiting for.
AwaitedByLoadTools(id) == \E t \in chatTab.toolsList : t.id = id

\* A request of any other caller settles.
MakeRequestSettleOf(id) ==
    /\ ~AwaitedByLoadTools(id)
    /\ MakeRequestSettles(id)
    /\ UNCHANGED chatTab

MakeRequestSettle == \E id \in DOMAIN calls : MakeRequestSettleOf(id)

\* The rejection of an aborted request reaches makeRequest.
MakeRequestSettleAborted ==
    \E id \in DOMAIN calls : SignalAborted(calls[id]) /\ MakeRequestSettleOf(id)

\* CompletionShortCircuits without the test of completionsSupported.
CompletionShortCircuitsNoFlag(mcpClientNow, completionsSupportedNow) ==
    mcpClientNow = NoClient

\* if (!mcpClient || !completionsSupported) return [] : line 198
CompletionShortCircuits(mcpClientNow, completionsSupportedNow) ==
    mcpClientNow = NoClient \/ ~completionsSupportedNow

\* handleCompletion up to the await inside makeRequest: lines 198-217.
HandleCompletionStart ==
    /\ Len(calls) < MaxCalls
    /\ LET c == NewCall("handleCompletion", TRUE, FALSE)
           id == Len(calls) + 1
       IN  IF CompletionShortCircuits(mcpClient, completionsSupported)
           THEN /\ calls' = Append(calls,
                       Settled(c, "returned", NoFailure, NoFailure, "empty"))
                /\ UNCHANGED sent
           ELSE /\ calls' = Append(calls, c)
                /\ sent' = sent \cup {id}
    /\ UNCHANGED << connectionStatus, serverCapabilities, mcpClient,
                    requestHistory, completionsSupported, toasts, mnfReceived,
                    authState, ctlState >>
    /\ UNCHANGED chatTab

\* CompletionCatch without the test of the error: every rejection disables
\* completions and is answered with the empty list.
CompletionCatchDisablesAlways(c, id, e, tsts) ==
    /\ completionsSupported' = FALSE
    /\ mnfReceived' = IsMethodNotFound(e) \/ mnfReceived
    /\ toasts' = tsts
    /\ calls' = [calls EXCEPT ![id] = Settled(c, "returned", e, NoFailure, "empty")]

\* CompletionCatch without the MethodNotFound branch: every rejection is shown
\* and rethrown.
CompletionCatchRethrowsAll(c, id, e, tsts) ==
    /\ UNCHANGED << completionsSupported, mnfReceived >>
    /\ toasts' = Append(tsts, Toast(id, "handleCompletion", e))
    /\ calls' = [calls EXCEPT ![id] = Settled(c, "threw", e, e, "none")]

\* handleCompletion's catch, lines 219-234: what it does with makeRequest's
\* rejection e, the toasts being tsts when it is entered.
CompletionCatch(c, id, e, tsts) ==
    IF IsMethodNotFound(e)
    THEN /\ completionsSupported' = FALSE
         /\ mnfReceived' = TRUE
         /\ toasts' = tsts
         /\ calls' = [calls EXCEPT ![id] =
                         Settled(c, "returned", e, NoFailure, "empty")]
    ELSE /\ UNCHANGED << completionsSupported, mnfReceived >>
         /\ toasts' = Append(tsts, Toast(id, "handleCompletion", e))
         /\ calls' = [calls EXCEPT ![id] = Settled(c, "threw", e, e, "none")]

\* The request made by handleCompletion settles: lines 168-189, then 218-234.
HandleCompletionSettle ==
    /\ \E id \in DOMAIN calls, outcome \in {NoFailure} \cup RequestErrors :
        LET c == calls[id] IN
        /\ c.kind = "handleCompletion"
        /\ c.st = "inflight"
        /\ requestHistory' = makeRequestHistory(requestHistory, c, id, outcome)
        /\ IF outcome = NoFailure
           THEN /\ calls' = [calls EXCEPT ![id] =
                        Settled(c, "returned", outcome, NoFailure, "values")]
                /\ toasts' = makeRequestToasts(toasts, c, id, outcome)
                /\ UNCHANGED << completionsSupported, mnfReceived >>
           ELSE CompletionCatch(c, id, outcome,
                                makeRequestToasts(toasts, c, id, outcome))
    /\ UNCHANGED << connectionStatus, serverCapabilities, mcpClient, sent,
                    authState, ctlState >>
    /\ UNCHANGED chatTab

\* SendNotificationStart without the toast of lines 240-244.
SendNotificationStartNoToast ==
    /\ Len(calls) < MaxCalls
    /\ LET c == NewCall("sendNotification", FALSE, FALSE)
           id == Len(calls) + 1
       IN  IF mcpClient = NoClient
           THEN /\ calls' = Append(calls,
                       Settled(c, "threw", NoFailure, NotConnected, "none"))
                /\ UNCHANGED << toasts, sent >>
           ELSE /\ calls' = Append(calls, c)
                /\ sent' = sent \cup {id}
                /\ UNCHANGED toasts
    /\ UNCHANGED << connectionStatus, serverCapabilities, mcpClient,
                    requestHistory, completionsSupported, mnfReceived,
                    authState, ctlState >>
    /\ UNCHANGED chatTab

\* sendNotification up to `await mcpClient.notification(...)`: lines 238-249.
SendNotificationStart ==
    /\ Len(calls) < MaxCalls
    /\ LET c == NewCall("sendNotification", FALSE, FALSE)
           id == Len(calls) + 1
       IN  IF mcpClient = NoClient
           THEN /\ calls' = Append(calls,
                       Settled(c, "threw", NoFailure, NotConnected, "none"))
                /\ toasts' = Append(toasts,
                       Toast(id, "sendNotification", NotConnected))
                /\ UNCHANGED sent
           ELSE /\ calls' = Append(calls, c)
                /\ sent' = sent \cup {id}
                /\ UNCHANGED toasts
    /\ UNCHANGED << connectionStatus, serverCapabilities, mcpClient,
                    requestHistory, completionsSupported, mnfReceived,
                    authState, ctlState >>
    /\ UNCHANGED chatTab

\* sendNotificationHistory without the instanceof test of line 253.
sendNotificationHistoryEveryError(prev, c, id, outcome) ==
    IF outcome = NoFailure
    THEN pushHistory(prev, c, Request(id, c.kind), "undefined")
    ELSE pushHistory(prev, c, Request(id, c.kind), outcome.msg)

\* sendNotificationHistory without the pushHistory of line 255.
sendNotificationHistorySuccessOnly(prev, c, id, outcome) ==
    IF outcome = NoFailure
    THEN pushHistory(prev, c, Request(id, c.kind), "undefined")
    ELSE prev

\* The history sendNotification leaves once mcpClient.notification has
\* settled: lines 251 and 253-256.
sendNotificationHistory(prev, c, id, outcome) ==
    IF outcome = NoFailure
    THEN pushHistory(prev, c, Request(id, c.kind), "undefined")
    ELSE IF outcome.cls = "McpError"
    THEN pushHistory(prev, c, Request(id, c.kind), outcome.msg)
    ELSE prev

\* `await mcpClient.notification(...)` settles: lines 249-263.
SendNotificationSettle ==
    /\ \E id \in DOMAIN calls, outcome \in {NoFailure} \cup RequestErrors :
        LET c == calls[id] IN
        /\ c.kind = "sendNotification"
        /\ c.st = "inflight"
        /\ requestHistory' =
              sendNotificationHistory(requestHistory, c, id, outcome)
        /\ IF outcome = NoFailure
           THEN /\ UNCHANGED toasts
                /\ calls' = [calls EXCEPT ![id] =
                        Settled(c, "returned", outcome, NoFailure, "none")]
           ELSE /\ toasts' = Append(toasts,
                        Toast(id, "sendNotification", outcome))
                /\ calls' = [calls EXCEPT ![id] =
                        Settled(c, "threw", outcome, outcome, "none")]
    /\ UNCHANGED << connectionStatus, serverCapabilities, mcpClient,
                    completionsSupported, sent, mnfReceived, authState,
                    ctlState >>
    /\ UNCHANGED chatTab

\* ---------------------------------------------------------------- chat tab
\* The makeRequest prop the chat tab is rendered with: the function of the
\* hook's current render.  useConnection makes a new one in every render
\* (configUtils.ts line 129), and renders anew whenever one of its state cells
\* changes, so the function is identified by the state it was made in.
ChatTabMakeRequest == hookState

\* The dependencies of the effect, [connectionStatus, mcpClient, makeRequest,
\* toolsLoaded] (line 335), in the current render.
LoadToolsDeps ==
    [connectionStatus |-> connectionStatus, mcpClient |-> mcpClient,
     makeRequest |-> ChatTabMakeRequest, toolsLoaded |-> chatTab.toolsLoaded]

\* if (connectionStatus === "connected" && mcpClient && !toolsLoaded): line 254
LoadToolsGuard ==
    /\ connectionStatus = "connected"
    /\ mcpClient # NoClient
    /\ ~chatTab.toolsLoaded

\* The effect of lines 252-335 runs, on mount or after a render in which one
\* of its dependencies changed, up to `await makeRequest(...)`.
LoadToolsEffect ==
    /\ ~chatTab.effect.ran \/ chatTab.effect.deps # LoadToolsDeps
    /\ IF LoadToolsGuard
       THEN /\ Cardinality(chatTab.toolsList) < MaxToolsLists
            /\ MakeRequestCallOn(NewCall("makeRequest", FALSE, FALSE), mcpClient)
            /\ chatTab' = [chatTab EXCEPT
                   !.effect = [ran |-> TRUE, deps |-> LoadToolsDeps],
                   !.toolsList = @ \cup {[id |-> Len(calls) + 1,
                                          session |-> mcpClient]}]
       ELSE /\ chatTab' = [chatTab EXCEPT
                   !.effect = [ran |-> TRUE, deps |-> LoadToolsDeps]]
            /\ UNCHANGED << calls, sent >>
    /\ UNCHANGED << hookState, toasts, mnfReceived, authState, ctlState >>

\* The tools/list request settles and loadTools goes on (lines 260-330):
\* makeRequest records the exchange and, in the same batch of updates,
\* loadTools stores the tools and sets toolsLoaded, on success and on failure.
LoadToolsSettles ==
    /\ \E t \in chatTab.toolsList, hasTools \in BOOLEAN :
        /\ MakeRequestSettles(t.id)
        /\ chatTab' = [chatTab EXCEPT
               !.toolsLoaded = TRUE,
               !.tools = IF calls'[t.id].st # "returned" THEN @
                         ELSE IF hasTools THEN "some" ELSE "none"]

\* What the user can have typed, and input.trim().
Inputs == {"", " ", "hi"}
Trim(input) == IF input = " " THEN "" ELSE input

\* handleInputChange, lines 343-345; the input field is disabled while
\* isLoading (line 959).
HandleInputChange ==
    /\ ~chatTab.isLoading
    /\ \E v \in Inputs : chatTab' = [chatTab EXCEPT !.input = v]
    /\ UNCHANGED << hookState, callState, authState, ctlState >>

\* handleSaveApiKey, lines 219-230: googleAI is set.
HandleSaveApiKey ==
    /\ chatTab' = [chatTab EXCEPT !.googleAI = TRUE]
    /\ UNCHANGED << hookState, callState, authState, ctlState >>

\* handleSubmit goes on: the negation of line 351,
\* if (!input.trim() || isLoading) return
SubmitGuard(input, isLoading) == Trim(input) # "" /\ ~isLoading

\* setMessages(prev => ...) of lines 506-517, 530-541 and 603-617: the text
\* goes into the last message if that is the assistant's, else into a new one.
IntoAssistantMessage(lastMessage) ==
    IF lastMessage = "assistant" THEN lastMessage ELSE "assistant"

\* SubmissionEnds in which setIsLoading(false) sits at the end of the try
\* block, not in a finally.
SubmissionEndsNoFinally(tab, i, failed) ==
    [tab EXCEPT !.submissions[i] = [@ EXCEPT !.pc = "done", !.remaining = 0],
                !.lastMessage = IF failed THEN "error" ELSE @,
                !.isLoading = IF failed THEN @ ELSE FALSE]

\* The catch of lines 635-644, if the submission failed, and the finally of
\* lines 645-648.
SubmissionEnds(tab, i, failed) ==
    [tab EXCEPT !.submissions[i] = [@ EXCEPT !.pc = "done", !.remaining = 0],
                !.lastMessage = IF failed THEN "error" ELSE @,
                !.isLoading = FALSE]

\* A submission in progress at position pc.
SubmissionAt(i, pc) ==
    /\ i \in DOMAIN chatTab.submissions
    /\ chatTab.submissions[i].pc = pc

\* handleSubmit up to its first await: lines 348-408.  The handler belongs to
\* the current render; its makeRequest is that render's.
HandleSubmit ==
    /\ IF ~SubmitGuard(chatTab.input, chatTab.isLoading)
       THEN chatTab' = [chatTab EXCEPT !.ignoredSubmit =
                                   @ \/ chatTab.isLoading]
       ELSE /\ Len(chatTab.submissions) < MaxSubmissions
            /\ LET i == Len(chatTab.submissions) + 1
                   started ==
                       [chatTab EXCEPT
                          !.lastMessage = "user",
                          !.input = "",
                          !.isLoading = TRUE,
                          !.submissions = Append(@,
                              [pc |-> "generate", mcpClient |-> mcpClient,
                               assistantMessageAdded |-> FALSE,
                               call |-> 0, remaining |-> 0])]
               IN  chatTab' = IF chatTab.googleAI
                              THEN started
                              ELSE SubmissionEnds(started, i, TRUE)
    /\ UNCHANGED << hookState, callState, authState, ctlState >>

\* await model.generateContentStream(...) settles: line 408
GenerateSettles ==
    /\ \E i \in DOMAIN chatTab.submissions, resolved \in BOOLEAN :
        /\ SubmissionAt(i, "generate")
        /\ chatTab' = IF resolved
                      THEN [chatTab EXCEPT !.submissions[i].pc = "stream"]
                      ELSE SubmissionEnds(chatTab, i, TRUE)
    /\ UNCHANGED << hookState, callState, authState, ctlState >>

\* The stream has been read to its end, or has failed: lines 415-441
StreamSettles ==
    /\ \E i \in DOMAIN chatTab.submissions,
          outcome \in {"text", "empty", "error", "text-then-error"} :
        /\ SubmissionAt(i, "stream")
        /\ chatTab' =
              CASE outcome = "text" ->
                     [chatTab EXCEPT
                        !.lastMessage = "assistant",
                        !.submissions[i].assistantMessageAdded = TRUE,
                        !.submissions[i].pc = "response"]
                [] outcome = "empty" ->
                     [chatTab EXCEPT !.submissions[i].pc = "response"]
                [] outcome = "error" -> SubmissionEnds(chatTab, i, TRUE)
                [] OTHER ->
                     SubmissionEnds(
                         [chatTab EXCEPT !.lastMessage = "assistant"],
                         i, TRUE)
    /\ UNCHANGED << hookState, callState, authState, ctlState >>

\* await streamingResponse.response settles (line 444); with function calls
\* in the response the first tool is called: lines 467-493.
ResponseSettles ==
    /\ \E i \in DOMAIN chatTab.submissions, rejected \in BOOLEAN,
          functionCalls \in 0..MaxFunctionCalls :
        LET sub == chatTab.submissions[i] IN
        /\ SubmissionAt(i, "response")
        /\ Len(calls) + functionCalls <= MaxCalls
        /\ IF rejected
           THEN /\ chatTab' = SubmissionEnds(chatTab, i, TRUE)
                /\ UNCHANGED << calls, sent >>
           ELSE IF functionCalls = 0
           THEN /\ chatTab' = SubmissionEnds(
                        [chatTab EXCEPT !.lastMessage =
                            IF sub.assistantMessageAdded THEN @
                            ELSE "assistant"],
                        i, FALSE)
                /\ UNCHANGED << calls, sent >>
           ELSE /\ MakeRequestCallOn(NewCall("makeRequest", FALSE, FALSE),
                                     sub.mcpClient)
                /\ chatTab' = [chatTab EXCEPT
                       !.submissions[i].pc = "tool",
                       !.submissions[i].call = Len(calls) + 1,
                       !.submissions[i].remaining = functionCalls - 1]
    /\ UNCHANGED << hookState, toasts, mnfReceived, authState, ctlState >>

\* await makeRequest(tools/call) has settled: the result or the error goes
\* into the messages (lines 495-542), then the next tool is called or the
\* follow-up generation starts (lines 545-590).
ToolSettles ==
    /\ \E i \in DOMAIN chatTab.submissions :
        LET sub == chatTab.submissions[i] IN
        /\ SubmissionAt(i, "tool")
        /\ calls[sub.call].st # "inflight"
        /\ IF sub.remaining > 0
           THEN /\ MakeRequestCallOn(NewCall("makeRequest", FALSE, FALSE),
                                     sub.mcpClient)
                /\ chatTab' = [chatTab EXCEPT
                       !.lastMessage = IntoAssistantMessage(@),
                       !.submissions[i].call = Len(calls) + 1,
                       !.submissions[i].remaining = @ - 1]
           ELSE /\ chatTab' = [chatTab EXCEPT
                       !.lastMessage = IntoAssistantMessage(@),
                       !.submissions[i].pc = "followup"]
                /\ UNCHANGED << calls, sent >>
    /\ UNCHANGED << hookState, toasts, mnfReceived, authState, ctlState >>

\* await model.generateContent(...) settles: lines 590-623; a failure is
\* caught at line 619.  Then the finally.
FollowupSettles ==
    /\ \E i \in DOMAIN chatTab.submissions,
          outcome \in {"text", "empty", "error"} :
        LET sub == chatTab.submissions[i] IN
        /\ SubmissionAt(i, "followup")
        /\ chatTab' = SubmissionEnds(
              [chatTab EXCEPT !.lastMessage =
                  IF outcome # "text" THEN @
                  ELSE IF sub.assistantMessageAdded THEN IntoAssistantMessage(@)
                  ELSE "assistant"],
              i, FALSE)
    /\ UNCHANGED << hookState, callState, authState, ctlState >>

\* The first connect() of the run.
ConnectOnce ==
    /\ attempts = << >>
    /\ ConnectStartForRequests

\* Another tab makes its first request of the run.
MakeRequestElsewhere ==
    /\ \A id \in DOMAIN calls : AwaitedByLoadTools(id)
    /\ MakeRequestStart

\* ------------------------------------------------------------ specification
\* The connection life cycle, over every combination of props.
Next ==
    \/ ConnectStart
    \/ ConnectHealth
    \/ ConnectTokens
    \/ ConnectHandshake
    \/ ConnectAuth
    \/ ConnectClose
    \/ DisconnectStart
    \/ DisconnectFinish

Spec == Init /\ [][Next]_vars

\* The connection life cycle of callers that supply both, one or none of the
\* notification callbacks.
NextHandlers ==
    \/ ConnectStartForHandlers
    \/ ConnectHealth
    \/ ConnectTokens
    \/ ConnectHandshake
    \/ ConnectAuth
    \/ ConnectClose
    \/ DisconnectStart
    \/ DisconnectFinish

SpecHandlers == Init /\ [][NextHandlers]_vars

\* Requests and completion lookups issued while the connection to one server
\* (one that asks for no authorization) is made, lost and remade.
NextRequests ==
    \/ ConnectStartForRequests
    \/ ConnectTokens
    \/ ConnectHandshakeNoAuth
    \/ ConnectClose
    \/ DisconnectStart
    \/ DisconnectFinish
    \/ MakeRequestStart
    \/ MakeRequestSettle
    \/ HandleCompletionStart
    \/ HandleCompletionSettle

SpecRequests == Init /\ [][NextRequests]_vars

\* Notifications and requests sent while the connection is made and lost.
NextNotifications ==
    \/ ConnectStartForRequests
    \/ ConnectTokens
    \/ ConnectHandshakeNoAuth
    \/ ConnectClose
    \/ DisconnectStart
    \/ DisconnectFinish
    \/ MakeRequestStart
    \/ MakeRequestSettle
    \/ SendNotificationStart
    \/ SendNotificationSettle

SpecNotifications == Init /\ [][NextNotifications]_vars

\* Completion lookups (each one a makeRequest call made by handleCompletion)
\* and notifications, made while the connection is made, lost and remade.
NextCalls ==
    \/ ConnectStartForRequests
    \/ ConnectTokens
    \/ ConnectHandshakeNoAuth
    \/ ConnectClose
    \/ DisconnectStart
    \/ DisconnectFinish
    \/ HandleCompletionStart
    \/ HandleCompletionSettle
    \/ SendNotificationStart
    \/ SendNotificationSettle

SpecCalls == Init /\ [][NextCalls]_vars

\* Requests made with and without reset-on-progress, for which the server
\* sends progress events before it answers.
NextProgress ==
    \/ ConnectStartForRequests
    \/ ConnectTokens
    \/ ConnectHandshakeNoAuth
    \/ ConnectClose
    \/ MakeRequestStartWithOptions
    \/ ProgressArrives
    \/ MakeRequestSettle

SpecProgress == Init /\ [][NextProgress]_vars

\* The chat tab's tool loading, next to the requests of other tabs.
NextTools ==
    \/ ConnectStartForRequests
    \/ ConnectTokens
    \/ ConnectHandshakeNoAuth
    \/ ConnectClose
    \/ MakeRequestElsewhere
    \/ MakeRequestSettle
    \/ LoadToolsEffect
    \/ LoadToolsSettles

SpecTools == Init /\ [][NextTools]_vars

\* The chat tab's message submissions.  Every awaited promise settles: the
\* model's and the MCP client's.
NextSubmit ==
    \/ ConnectOnce
    \/ ConnectTokens
    \/ ConnectHandshakeNoAuth
    \/ ConnectClose
    \/ MakeRequestSettle
    \/ HandleInputChange
    \/ HandleSaveApiKey
    \/ HandleSubmit
    \/ GenerateSettles
    \/ StreamSettles
    \/ ResponseSettles
    \/ ToolSettles
    \/ FollowupSettles

\* What a submission in progress waits for.
AwaitSettles ==
    \/ GenerateSettles
    \/ StreamSettles
    \/ ResponseSettles
    \/ MakeRequestSettle
    \/ ToolSettles
    \/ FollowupSettles

SpecSubmit == Init /\ [][NextSubmit]_vars /\ WF_vars(AwaitSettles)

\* Requests that carry the caller's cancellation signal, some of them aborted
\* while in flight, on sessions that are opened and replaced by reconnecting.
\* An aborted request is rejected by the client as soon as its signal fires,
\* and the continuation of makeRequest then runs.
NextAbort ==
    \/ ConnectStartForRequests
    \/ ConnectTokens
    \/ ConnectHandshakeNoAuth
    \/ ConnectClose
    \/ MakeRequestStartWithSignal
    \/ MakeRequestSettle
    \/ AbortSignal

SpecAbort ==
    Init /\ [][NextAbort]_vars /\ WF_vars(MakeRequestSettleAborted)

\* ================================================================== claims
HasAttempt == Len(attempts) > 0
InConnect == ctl \in ConnectPcs
ConnectEnded == ctl \in {"connectDone", "connectThrew"}

\* C1: for stdio and sse, when the proxy health check fails during connect,
\* that attempt builds no transport and starts no handshake, and connect ends
\* there with connectionStatus = error-connecting-to-proxy.
C1_ProxyFailureShortCircuits ==
    \A i \in DOMAIN attempts :
        attempts[i].health = "fail" =>
            /\ cprops.transportType \in {"stdio", "sse"}
            /\ attempts[i].transport = NoTransport
            /\ ~attempts[i].handshake
            /\ i = Len(attempts)
            /\ ctl = "connectDone"
            /\ connectionStatus = "error-connecting-to-proxy"

\* A retried stdio connect whose health check failed on the retry.
C1_Witness ==
    /\ Len(attempts) = 2
    /\ cprops.transportType = "stdio"
    /\ attempts[2].health = "fail"
    /\ ctl = "connectDone"

\* C2: while a streamableHttp connect is in progress (retries included) the
\* health check is never awaited nor answered, and no step of it sets the
\* status to error-connecting-to-proxy.
StreamableConnect == HasAttempt /\ cprops.transportType = "streamableHttp"

C2_StreamableHttpSkipsHealth ==
    [][ /\ StreamableConnect' =>
            /\ ctl' # "health"
            /\ \A i \in DOMAIN attempts' : attempts'[i].health = "none"
        /\ (StreamableConnect /\ InConnect
              /\ connectionStatus' = "error-connecting-to-proxy")
            => connectionStatus = "error-connecting-to-proxy" ]_vars

\* A streamableHttp connect that was retried after a 401 and then connected.
C2_Witness ==
    /\ StreamableConnect
    /\ Len(attempts) = 2
    /\ ctl = "connectDone"
    /\ Cur.outcome = "connected"

\* What the status is when connect has returned, by the last attempt's outcome.
StatusOfOutcome ==
    (ctl = "connectDone" /\ HasAttempt) =>
        /\ Cur.outcome = "connected" =>
              connectionStatus = "connected" /\ mcpClient = Cur.client
        /\ Cur.outcome = "proxy-fail" =>
              connectionStatus = "error-connecting-to-proxy"
        /\ Cur.outcome \in {"transport-fail", "handshake-fail", "setup-fail"} =>
              connectionStatus = "error"
        /\ Cur.outcome = "401-redirect" =>
              connectionStatus = Cur.statusBefore

\* Every attempt but the last one ended in a 401 answered "AUTHORIZED".
RetryChain ==
    /\ \A i \in DOMAIN attempts :
          i < Len(attempts) =>
              /\ attempts[i].outcome = "401-authorized"
              /\ attempts[i].auth = "AUTHORIZED"
              /\ IsAuthRequired(attempts[i].error)
    /\ (HasAttempt /\ (InConnect \/ ConnectEnded)) =>
          retryCount = Len(attempts) - 1

\* C3 as stated: once a 401 was followed by an authorized outcome, connect ends
\* after exactly one retry, connected.
C3_Original ==
    (ConnectEnded /\ \E i \in DOMAIN attempts : attempts[i].auth = "AUTHORIZED")
        => (Len(attempts) = 2 /\ connectionStatus = "connected")

\* C3 amended: a 401 followed by an authorized outcome starts exactly one
\* retried attempt, with a new client and the retry counter one higher; the
\* call ends connected exactly when its last attempt connects, and otherwise
\* with the status of the failure that ended it.
C3_AuthorizedStartsOneRetry ==
    [][ /\ (ctl = "auth" /\ Len(attempts') >= Len(attempts)
              /\ attempts'[Len(attempts)].auth = "AUTHORIZED") =>
            /\ Len(attempts') = Len(attempts) + 1
            /\ retryCount' = retryCount + 1
            /\ client' = client + 1
            /\ attempts'[Len(attempts')] =
                   FreshAttempt(client', connectionStatus)
            /\ ctl' \in {"health", "tokens"}
            /\ cprops' = cprops
            /\ connectionStatus' = connectionStatus
        /\ (ctl = "auth" /\ ctl' \in {"health", "tokens"}) =>
              attempts'[Len(attempts)].auth = "AUTHORIZED"
        /\ StatusOfOutcome'
        /\ RetryChain' ]_vars

\* One 401, authorized, and the retry connected.
C3_Witness ==
    /\ ctl = "connectDone"
    /\ Len(attempts) = 2
    /\ attempts[1].auth = "AUTHORIZED"
    /\ connectionStatus = "connected"

\* C4: a connect whose handshake failed with a 401 and whose authorization
\* did not report authorized returns with connectionStatus as it was before
\* the attempt (and before the call): this path never sets error.
C4_RedirectLeavesStatus ==
    (HasAttempt /\ (Cur.auth = "REDIRECT" \/ Cur.outcome = "401-redirect")) =>
        /\ IsAuthRequired(Cur.error)
        /\ Cur.auth = "REDIRECT"
        /\ Cur.outcome = "401-redirect"
        /\ ctl = "connectDone"
        /\ connectionStatus = Cur.statusBefore
        /\ connectionStatus = attempts[1].statusBefore

\* A reconnect from a connected session that ends on a pending redirect.
C4_Witness ==
    /\ HasAttempt
    /\ Cur.outcome = "401-redirect"
    /\ Cur.error.cls = "StreamableHttpError"
    /\ connectionStatus = "connected"

\* ------------------------------------------------------- request claims
\* Records call id has in the history, toasts it was given by `by`.
Pushed(id) ==
    Cardinality({k \in DOMAIN requestHistory : requestHistory[k].request.id = id})
ToastsBy(id, by) ==
    Cardinality({k \in DOMAIN toasts : toasts[k].id = id /\ toasts[k].by = by})
IsSettled(id) == calls[id].st # "inflight"
\* The call found a session: its message was handed to the client.
FoundSession(id) == id \in sent
IsPrefix(a, b) == Len(a) <= Len(b) /\ SubSeq(b, 1, Len(a)) = a

\* C5 as stated: every settled makeRequest call, the not-connected failure
\* included, has exactly one record, so n settled calls make n records.
C5_Original ==
    /\ \A id \in DOMAIN calls :
          (calls[id].kind = "makeRequest" /\ IsSettled(id)) => Pushed(id) = 1
    /\ Len(requestHistory) >=
          Cardinality({id \in DOMAIN calls :
              calls[id].kind = "makeRequest" /\ IsSettled(id)})

\* C5 amended: a makeRequest call that found a session has exactly one record
\* once it has settled (result, rejection, schema mismatch or abort alike) and
\* none before; a call made without a session throws not-connected and has
\* none: the history holds one record per settled call that found a session.
C5_OneRecordPerLiveCall ==
    /\ \A id \in DOMAIN calls :
          /\ Pushed(id) = IF IsSettled(id) /\ FoundSession(id) THEN 1 ELSE 0
          /\ (~FoundSession(id) /\ calls[id].kind = "makeRequest") =>
                (calls[id].st = "threw" /\ calls[id].error = NotConnected)
    /\ \A k \in DOMAIN requestHistory :
          LET id == requestHistory[k].request.id IN
          /\ id \in DOMAIN calls
          /\ requestHistory[k].request = Request(id, calls[id].kind)
          /\ requestHistory[k].response =
                IF calls[id].rejection = NoFailure
                THEN "result" ELSE calls[id].rejection.msg
    /\ Len(requestHistory) =
          Cardinality({id \in DOMAIN calls : IsSettled(id) /\ FoundSession(id)})

\* One call failed on a live session, one was made without a session.
C5_Witness ==
    \E a, b \in DOMAIN calls :
        /\ calls[a].kind = "makeRequest" /\ calls[a].st = "threw"
        /\ FoundSession(a)
        /\ calls[b].kind = "makeRequest" /\ calls[b].error = NotConnected
        /\ Len(requestHistory) = 1

\* C6: whatever the interleaving of in-flight calls, each step leaves the
\* history it found as a prefix of the history it leaves: no record is lost,
\* overwritten, removed or moved.
C6_HistoryAppendOnly ==
    [][IsPrefix(requestHistory, requestHistory')]_vars

\* Two calls overlapped: the second one made settled first.
C6_Witness ==
    /\ Len(requestHistory) = 2
    /\ requestHistory[1].request.id = 2
    /\ requestHistory[2].request.id = 1

\* C7: a makeRequest call with suppressToast that failed on a live session has
\* its record, holding the request and the error, and no toast from makeRequest.
C7_SuppressedFailureRecorded ==
    \A id \in DOMAIN calls :
        (calls[id].suppressToast /\ FoundSession(id) /\ IsSettled(id)
            /\ calls[id].rejection # NoFailure) =>
            /\ Pushed(id) = 1
            /\ \E k \in DOMAIN requestHistory :
                  requestHistory[k] =
                      [request |-> Request(id, calls[id].kind),
                       response |-> calls[id].rejection.msg]
            /\ ToastsBy(id, "makeRequest") = 0

\* A direct makeRequest call with suppressToast that threw on a live session.
C7_Witness ==
    \E id \in DOMAIN calls :
        /\ calls[id].kind = "makeRequest"
        /\ calls[id].suppressToast
        /\ FoundSession(id)
        /\ calls[id].st = "threw"

\* C8: a completion lookup whose request is answered MethodNotFound returns
\* the empty list (it does not throw), leaves the completion flag false and
\* issues no toast.
C8_MethodNotFoundIsSilent ==
    [][ \A id \in DOMAIN calls :
          (calls[id].kind = "handleCompletion" /\ calls[id].st = "inflight"
              /\ IsMethodNotFound(calls'[id].rejection)) =>
              /\ calls'[id].st = "returned"
              /\ calls'[id].value = "empty"
              /\ calls'[id].error = NoFailure
              /\ ~completionsSupported'
              /\ toasts' = toasts ]_vars

\* A lookup answered MethodNotFound while the flag was still true.
C8_Witness ==
    \E id \in DOMAIN calls :
        /\ calls[id].kind = "handleCompletion"
        /\ IsMethodNotFound(calls[id].rejection)
        /\ ~completionsSupported
        /\ mcpClient # NoClient

C10_Original ==
    [][ (ctl = "handshake" /\ ctl' = "auth") =>
            /\ storedServerUrl' = cprops.sseUrl
            /\ authTokens' = IF storedServerUrl # cprops.sseUrl
                             THEN NoToken
                             ELSE authTokens ]_vars

\* The transports that reach the target server named by sseUrl.
TargetsServerUrl == cprops.transportType \in {"sse", "streamableHttp"}

\* C11: no connect attempt to server URL B carries, as its Authorization
\* header, an OAuth token that was stored for a different server URL A.
C11_Original ==
    \A i \in DOMAIN attempts :
        (TargetsServerUrl /\ attempts[i].transport.authorization.kind = "oauth")
            => attempts[i].transport.authorization.issuedFor = cprops.sseUrl

\* C12: when disconnect has ended, by returning or by throwing because
\* closing the transport failed, the status is disconnected, the capabilities
\* are null, the session handle is null and the completion flag is false.
C12_Original ==
    ctl \in {"disconnectDone", "disconnectThrew"} =>
        /\ connectionStatus = "disconnected"
        /\ serverCapabilities = "null"
        /\ mcpClient = NoClient
        /\ ~completionsSupported

\* C13: connect never ends by throwing to its caller: whatever fails (health
\* check, token lookup, transport construction, handshake, authorization
\* flow, post-connect setup, cleanup close), connect returns.
C13_Original == ctl # "connectThrew"

\* C14: an attempt in which building the transport throws ends connect with
\* connectionStatus = error, without a handshake and without an exception;
\* for the proxied kinds the attempt only reaches the construction with a
\* proxy address that new URL() accepts (the health check parsed it).
TransportFailed(a) == a.outcome \in {"transport-fail", "transport-threw"}

C14_TransportThrowEndsInError ==
    /\ \A i \in DOMAIN attempts :
          /\ TransportFailed(attempts[i]) =>
                /\ i = Len(attempts)
                /\ attempts[i].outcome = "transport-fail"
                /\ ctl = "connectDone"
                /\ connectionStatus = "error"
                /\ ~attempts[i].handshake
                /\ attempts[i].transport = NoTransport
          /\ (attempts[i].health = "ok" /\ attempts[i].outcome # "running") =>
                /\ cprops.transportType \in {"stdio", "sse"}
                /\ cprops.proxyAddressOk
                /\ ~TransportFailed(attempts[i])
    /\ (ctl = "tokens" /\ cprops.transportType # "streamableHttp") =>
          cprops.proxyAddressOk

\* A streamableHttp connect to a malformed URL, made from a connected session.
C14_Witness ==
    /\ HasAttempt
    /\ cprops.transportType = "streamableHttp"
    /\ ~ValidUrl(cprops.sseUrl)
    /\ Cur.outcome = "transport-fail"
    /\ Cur.statusBefore = "connected"
    /\ connectionStatus = "error"

\* C16: a makeRequest call made while there is no session throws the
\* not-connected error in the step that makes it, hands nothing to any client
\* and leaves history and toasts alone; nothing ever resumes or resends it,
\* whatever session is opened later.
C16_NotConnectedFailsAtOnce ==
    [][ /\ (Len(calls') = Len(calls) + 1 /\ mcpClient = NoClient
              /\ calls'[Len(calls')].kind = "makeRequest") =>
            /\ calls'[Len(calls')].st = "threw"
            /\ calls'[Len(calls')].error = NotConnected
            /\ sent' = sent
            /\ requestHistory' = requestHistory
            /\ toasts' = toasts
        /\ \A id \in DOMAIN calls :
              calls[id].error = NotConnected =>
                  /\ calls'[id] = calls[id]
                  /\ id \notin sent'
                  /\ Pushed(id)' = 0 ]_vars

\* A call failed for want of a session, and a session was opened afterwards.
C16_Witness ==
    \E id \in DOMAIN calls :
        /\ calls[id].kind = "makeRequest"
        /\ calls[id].error = NotConnected
        /\ id \notin sent
        /\ mcpClient # NoClient
        /\ connectionStatus = "connected"

\* C17: a makeRequest call that found a session and whose request was
\* rejected has thrown that same rejection; it has its history record, and
\* exactly one toast from makeRequest carrying the rejection's message unless
\* suppressToast was set (then none); no state shows the toast without the
\* record, or the call thrown without the toast.
FailedOnSession(id) ==
    /\ calls[id].kind = "makeRequest"
    /\ FoundSession(id)
    /\ IsSettled(id)
    /\ calls[id].rejection # NoFailure

C17_FailureToastedAndRethrown ==
    /\ \A id \in DOMAIN calls :
          FailedOnSession(id) =>
              /\ calls[id].st = "threw"
              /\ calls[id].error = calls[id].rejection
              /\ Pushed(id) = 1
              /\ ToastsBy(id, "makeRequest") =
                    IF calls[id].suppressToast THEN 0 ELSE 1
              /\ ~calls[id].suppressToast =>
                    \E k \in DOMAIN toasts :
                        toasts[k] = [id |-> id, by |-> "makeRequest",
                                     description |-> calls[id].rejection.msg]
    /\ \A k \in DOMAIN toasts :
          toasts[k].by = "makeRequest" =>
              /\ FailedOnSession(toasts[k].id)
              /\ Pushed(toasts[k].id) = 1

\* Two calls failed on a session, one of them with suppressToast.
C17_Witness ==
    \E a, b \in DOMAIN calls :
        /\ FailedOnSession(a) /\ ~calls[a].suppressToast
        /\ FailedOnSession(b) /\ calls[b].suppressToast
        /\ Len(toasts) = 1

\* C18: a makeRequest call whose caller aborts its signal while the request is
\* in flight ends by throwing (it does not stay in flight); aborting writes
\* nothing, the call's settling appends exactly one record, holding the error,
\* and every record already in the history stays where it was.
AbortRecord(id) ==
    [request |-> [id |-> id, method |-> "tools/call"],
     response |-> "aborted"]

C18_AbortedCallFails ==
    /\ [](\A id \in DOMAIN calls :
            (calls[id].aborted /\ IsSettled(id)) =>
                /\ calls[id].st = "threw"
                /\ calls[id].error.msg = "aborted"
                /\ Pushed(id) = 1
                /\ \E k \in DOMAIN requestHistory :
                      requestHistory[k] = AbortRecord(id))
    /\ [][ \A id \in DOMAIN calls :
             /\ (calls'[id].aborted /\ ~calls[id].aborted) =>
                    requestHistory' = requestHistory
             /\ (calls[id].aborted /\ ~IsSettled(id) /\ IsSettled(id)') =>
                    requestHistory' = Append(requestHistory, AbortRecord(id))
         ]_vars
    /\ \A id \in 1..MaxCalls :
          (id \in DOMAIN calls /\ calls[id].aborted)
              ~> (id \in DOMAIN calls /\ calls[id].st = "threw")

\* One call was aborted and threw after another call's answer was recorded.
C18_Witness ==
    \E a, b \in DOMAIN calls :
        /\ calls[a].aborted /\ calls[a].st = "threw"
        /\ calls[b].st = "returned"
        /\ Len(requestHistory) = 2
        /\ requestHistory[2] = AbortRecord(a)

\* C19: when the handshake is rejected with anything but an SseError or a
\* StreamableHttpError of code 401, connect returns in that step with
\* connectionStatus = error: no new attempt, no new client, the authorization
\* flow not started, tokens and remembered URL untouched.
C19_OtherHandshakeFailureIsError ==
    [][ LET n == Len(attempts) IN
        (/\ ctl = "handshake"
         /\ attempts'[n].error # NoError
         /\ ~(/\ attempts'[n].error.cls \in {"SseError", "StreamableHttpError"}
              /\ attempts'[n].error.code = 401)) =>
            /\ ctl' = "connectDone"
            /\ connectionStatus' = "error"
            /\ Len(attempts') = n
            /\ attempts'[n].outcome = "handshake-fail"
            /\ attempts'[n].auth = "none"
            /\ nextClient' = nextClient
            /\ retryCount' = retryCount
            /\ authTokens' = authTokens
            /\ storedServerUrl' = storedServerUrl
            /\ mcpClient' = mcpClient ]_vars

\* A retried connect whose handshake failed with a 401 of a class that is not
\* a transport error.
C19_Witness ==
    /\ Len(attempts) = 2
    /\ Cur.error = [cls |-> "Error", code |-> 401]
    /\ Cur.outcome = "handshake-fail"
    /\ connectionStatus = "error"

\* C20: when the handshake succeeds and the post-connect setup does not
\* throw, connect returns in that step with connectionStatus = connected, the
\* session handle set to the client that did the handshake, the capabilities
\* set to what that client negotiated (null if nothing) and the completion
\* flag true, whatever these were before.
C20_ConnectedStateAfterHandshake ==
    [][ LET n == Len(attempts) IN
        (/\ ctl = "handshake"
         /\ attempts'[n].negotiated # "none"
         /\ attempts'[n].outcome # "setup-fail") =>
            /\ ctl' = "connectDone"
            /\ attempts'[n].outcome = "connected"
            /\ connectionStatus' = "connected"
            /\ attempts[n].handshake
            /\ mcpClient' = attempts[n].client
            /\ mcpClient' = nextClient
            /\ serverCapabilities' =
                  IF attempts'[n].negotiated = "undefined"
                  THEN "null" ELSE attempts'[n].negotiated
            /\ completionsSupported' ]_vars

\* A second connect call that connected to a server announcing no capabilities.
C20_Witness ==
    /\ Len(attempts) = 1
    /\ Cur.client = 2
    /\ Cur.outcome = "connected"
    /\ Cur.negotiated = "undefined"
    /\ Cur.statusBefore = "disconnected"
    /\ serverCapabilities = "null"
    /\ mcpClient = 2
    /\ completionsSupported

\* C21: a connect whose post-connect setup threw after a successful handshake
\* has closed the client, ends by returning with connectionStatus = error and
\* leaves the session handle null.
C21_Original ==
    (HasAttempt /\ Cur.outcome = "setup-fail" /\ ConnectEnded) =>
        /\ ctl = "connectDone"
        /\ connectionStatus = "error"
        /\ mcpClient = NoClient

\* Notifications a server can send: the six named ones, the stderr one and
\* one of a method the client has no handler for.
DeliveredNotifications ==
    NamedNotifications \cup {StdErrNotification, "notifications/progress"}

\* C22 as stated: every attempt that started its handshake had registered, on
\* its client, a handler for each of the six named notifications, the fallback
\* handler and the stderr handler, and every notification reaches a callback.
C22_Original ==
    \A i \in DOMAIN attempts :
        attempts[i].handshake =>
            /\ \A slot \in HandlerSlots : attempts[i].handlers[slot] # "none"
            /\ \A method \in DeliveredNotifications :
                  NotificationRoute(attempts[i].handlers, method) # "none"

\* C22 amended: an attempt that has started its handshake has registered
\* exactly the handlers the caller supplied a callback for: the six named
\* ones and the fallback go to onNotification if supplied, the stderr one to
\* onStdErrNotification if supplied; an attempt that has not started it has
\* none.  With onNotification supplied every notification reaches a callback
\* (stderr: onStdErrNotification if supplied, else onNotification through the
\* fallback); without it every notification but stderr is dropped.
C22_SuppliedHandlersRegisteredFirst ==
    \A i \in DOMAIN attempts :
        LET h == attempts[i].handlers IN
        /\ ~attempts[i].handshake => h = NoHandlers
        /\ attempts[i].handshake =>
            /\ \A slot \in NamedNotifications \cup {"fallback"} :
                  h[slot] = IF cprops.onNotification
                            THEN "onNotification" ELSE "none"
            /\ h[StdErrNotification] =
                  IF cprops.onStdErrNotification
                  THEN "onStdErrNotification" ELSE "none"
            /\ \A method \in DeliveredNotifications \ {StdErrNotification} :
                  NotificationRoute(h, method) =
                      IF cprops.onNotification THEN "onNotification" ELSE "none"
            /\ NotificationRoute(h, StdErrNotification) =
                  IF cprops.onStdErrNotification THEN "onStdErrNotification"
                  ELSE IF cprops.onNotification THEN "onNotification"
                  ELSE "none"

\* A connected sse session of a caller that supplied onNotification only.
C22_Witness ==
    /\ HasAttempt
    /\ Cur.outcome = "connected"
    /\ cprops.transportType = "sse"
    /\ cprops.onNotification /\ ~cprops.onStdErrNotification
    /\ NotificationRoute(Cur.handlers, StdErrNotification) = "onNotification"

\* The authorization flow answers authorized and connect is entered again.
RetryStep == ConnectAuth /\ Len(attempts') = Len(attempts) + 1

\* C23: each authorized outcome after a 401 starts exactly one further
\* attempt, which starts from the beginning (the health check for the proxied
\* kinds, the token lookup for streamableHttp) with nothing carried over and
\* the retry counter one higher; every attempt that reaches its handshake, a
\* retry included, has passed its own health check, built its own transport
\* and registered its handlers; whatever the retry counter, an authorization
\* in progress can still be answered authorized and be retried.
C23_RetryRerunsWholeSequence ==
    [][ /\ (ctl = "auth" /\ Len(attempts') >= Len(attempts)
              /\ attempts'[Len(attempts)].auth = "AUTHORIZED") =>
            /\ Len(attempts') = Len(attempts) + 1
            /\ attempts'[Len(attempts')].health = "none"
            /\ attempts'[Len(attempts')].transport = NoTransport
            /\ attempts'[Len(attempts')].handlers = NoHandlers
            /\ ~attempts'[Len(attempts')].handshake
            /\ attempts'[Len(attempts')].client = nextClient + 1
            /\ retryCount' = retryCount + 1
            /\ ctl' = IF cprops.transportType = "streamableHttp"
                      THEN "tokens" ELSE "health"
        /\ \A i \in DOMAIN attempts' :
              attempts'[i].handshake =>
                  /\ attempts'[i].health =
                        IF cprops'.transportType = "streamableHttp"
                        THEN "none" ELSE "ok"
                  /\ attempts'[i].transport # NoTransport
                  /\ attempts'[i].handlers # NoHandlers
        /\ (ctl' \in ConnectPcs) => retryCount' = Len(attempts') - 1
        /\ (ctl = "auth" /\ nextClient < MaxClients) => ENABLED RetryStep
      ]_vars

\* The retry counter has reached the largest value the bound on clients
\* allows, on a proxied connect whose every retry passed the health check.
C23_Witness ==
    /\ Len(attempts) = MaxClients
    /\ retryCount = MaxClients - 1
    /\ cprops.transportType = "sse"
    /\ Cur.health = "ok"
    /\ Cur.handshake

\* The error is a 401 of the proxied-SSE or of the streamable transport.
TransportError401(error) ==
    error.cls \in {"SseError", "StreamableHttpError"} /\ error.code = 401

\* C24: handleAuthError answers true (connect is entered again) exactly when
\* the handshake error is a transport 401 and the authorization flow resolved
\* authorized.  For a transport 401 it remembers the target URL and starts the
\* flow; for any other error it answers false at once: tokens and remembered
\* URL are left alone and the flow is not started.
C24_HandleAuthErrorResult ==
    [][ LET n == Len(attempts) IN
        /\ (ctl = "auth" /\ Len(attempts') >= n) =>
              /\ (Len(attempts') = n + 1) <=>
                    (attempts'[n].auth = "AUTHORIZED")
              /\ TransportError401(attempts[n].error)
              /\ attempts'[n].auth \in {"AUTHORIZED", "REDIRECT", "threw"}
        /\ (ctl = "handshake" /\ attempts'[n].error # NoError) =>
              IF TransportError401(attempts'[n].error)
              THEN /\ ctl' = "auth"
                   /\ attempts'[n].auth = "pending"
                   /\ storedServerUrl' = cprops.sseUrl
              ELSE /\ ctl' = "connectDone"
                   /\ Len(attempts') = n
                   /\ attempts'[n].auth = "none"
                   /\ authTokens' = authTokens
                   /\ storedServerUrl' = storedServerUrl
        /\ (Len(attempts') = n + 1 /\ n > 0) =>
              (ctl = "auth" /\ attempts'[n].outcome = "401-authorized")
      ]_vars

\* A first 401 was answered authorized and retried, the second was not; the
\* stored token set was left by the first.
C24_Witness ==
    /\ Len(attempts) = 2
    /\ attempts[1].auth = "AUTHORIZED"
    /\ Cur.auth = "REDIRECT"
    /\ Cur.error.cls = "SseError"
    /\ storedServerUrl = "https://b"
    /\ ctl = "connectDone"

\* A sendNotification call that found a session and has settled.
NotificationSettled(id) ==
    /\ calls[id].kind = "sendNotification"
    /\ FoundSession(id)
    /\ IsSettled(id)

\* C25: a sendNotification call on a live session whose send succeeded has
\* returned with exactly one record, of the notification, and no toast; one
\* whose send failed has thrown that failure with exactly one toast carrying
\* its message, and has exactly one record, holding the error, if the failure
\* is an McpError and none otherwise.
C25_NotificationRecordedAndToasted ==
    \A id \in DOMAIN calls :
        NotificationSettled(id) =>
            IF calls[id].rejection = NoFailure
            THEN /\ calls[id].st = "returned"
                 /\ Pushed(id) = 1
                 /\ \E k \in DOMAIN requestHistory :
                       requestHistory[k] =
                           [request |-> [id |-> id, method |->
                                "notifications/roots/list_changed"],
                            response |-> "undefined"]
                 /\ ToastsBy(id, "sendNotification") = 0
            ELSE /\ calls[id].st = "threw"
                 /\ calls[id].error = calls[id].rejection
                 /\ ToastsBy(id, "sendNotification") = 1
                 /\ \E k \in DOMAIN toasts :
                       toasts[k] = [id |-> id, by |-> "sendNotification",
                                    description |-> calls[id].rejection.msg]
                 /\ IF calls[id].rejection.cls = "McpError"
                    THEN /\ Pushed(id) = 1
                         /\ \E k \in DOMAIN requestHistory :
                               /\ requestHistory[k].request.id = id
                               /\ requestHistory[k].response =
                                     calls[id].rejection.msg
                    ELSE Pushed(id) = 0

\* Two sends failed on a session, one with an McpError and one without.
C25_Witness ==
    \E a, b \in DOMAIN calls :
        /\ NotificationSettled(a) /\ calls[a].rejection.cls = "McpError"
        /\ NotificationSettled(b) /\ calls[b].rejection.cls = "Error"
        /\ Len(requestHistory) = 1
        /\ Len(toasts) = 2

\* C26: a completion lookup whose request is rejected with anything but an
\* McpError of code MethodNotFound throws that rejection; that step appends
\* exactly one record (the request with the error) and exactly one toast (the
\* error's message, from handleCompletion) and leaves the completion flag as
\* it was.
C26_OtherCompletionFailureRethrown ==
    [][ \A id \in DOMAIN calls :
          (/\ calls[id].kind = "handleCompletion"
           /\ calls[id].st = "inflight"
           /\ calls'[id].rejection # NoFailure
           /\ ~(/\ calls'[id].rejection.cls = "McpError"
                /\ calls'[id].rejection.code = MethodNotFound)) =>
              /\ calls'[id].st = "threw"
              /\ calls'[id].error = calls'[id].rejection
              /\ requestHistory' = Append(requestHistory,
                    [request |-> [id |-> id, method |-> "completion/complete"],
                     response |-> calls'[id].rejection.msg])
              /\ toasts' = Append(toasts,
                    [id |-> id, by |-> "handleCompletion",
                     description |-> calls'[id].rejection.msg])
              /\ completionsSupported' = completionsSupported ]_vars

\* A lookup failed with an McpError that is not MethodNotFound, on a session
\* whose completions stay enabled.
C26_Witness ==
    \E id \in DOMAIN calls :
        /\ calls[id].kind = "handleCompletion"
        /\ calls[id].st = "threw"
        /\ calls[id].error.cls = "McpError"
        /\ completionsSupported
        /\ mcpClient # NoClient
        /\ Len(toasts) = 1

\* C27 as stated: once a MethodNotFound answer has set the completion flag to
\* false, only a connect that ends connected sets it back to true.
C27_Original ==
    [][ (mnfReceived /\ ~completionsSupported /\ completionsSupported') =>
            connectionStatus' = "connected" ]_vars

\* C27 amended: once a MethodNotFound answer has set the completion flag to
\* false it stays false through every makeRequest, handleCompletion,
\* sendNotification and disconnect; the only step that sets the flag to true
\* is the one in which a connect's handshake has succeeded, whether its
\* post-connect setup then completes (connected) or throws (error).
C27_FlagStaysFalseUntilHandshake ==
    [][ /\ (~completionsSupported /\ completionsSupported') =>
              /\ ctl = "handshake"
              /\ attempts'[Len(attempts)].negotiated # "none"
              /\ attempts'[Len(attempts)].outcome \in {"connected", "setup-fail"}
        /\ mnfReceived' => ~completionsSupported'
        /\ (mnfReceived /\ ~mnfReceived') => ctl = "handshake" ]_vars

\* The flag was set to false by MethodNotFound and is still false after a
\* later notification was sent and the session was disconnected.
C27_Witness ==
    /\ mnfReceived
    /\ ~completionsSupported
    /\ ctl = "disconnectDone"
    /\ \E id \in DOMAIN calls :
          /\ calls[id].kind = "sendNotification"
          /\ calls[id].st = "returned"
    /\ \E id \in DOMAIN calls : IsMethodNotFound(calls[id].rejection)

\* C28: a connect that reaches connected leaves an empty request history:
\* every record the history held was made during an earlier session.
C28_Original ==
    [][ (ctl = "handshake" /\ ctl' = "connectDone"
            /\ connectionStatus' = "connected") =>
            requestHistory' = << >> ]_vars

\* C29: a step that settles or aborts one call leaves every other call as it
\* was; a call in flight can always settle, whatever the other calls did, and
\* unless its own signal was aborted it can still settle either way, with a
\* result or with a failure.
C29_CallsDoNotBlock ==
    /\ [][ \A a, b \in DOMAIN calls :
             (a # b /\ calls'[a] # calls[a]) => calls'[b] = calls[b] ]_vars
    /\ [](\A b \in DOMAIN calls :
            calls[b].st = "inflight" =>
                /\ ENABLED MakeRequestSettleOf(b)
                /\ ~calls[b].aborted =>
                      /\ ENABLED (MakeRequestSettleOf(b)
                                    /\ calls'[b].st = "returned")
                      /\ ENABLED (MakeRequestSettleOf(b)
                                    /\ calls'[b].st = "threw"))

\* Two calls were in flight together: the second one made timed out first,
\* and the first one was answered with a result after that.
C29_Witness ==
    /\ Len(calls) = 2
    /\ calls[2].st = "threw" /\ calls[2].rejection.msg = "timed out"
    /\ calls[1].st = "returned"
    /\ Len(requestHistory) = 2
    /\ requestHistory[1].request.id = 2
    /\ requestHistory[2].request.id = 1
    /\ requestHistory[2].response = "result"

\* The progress notifications 1..n, each once and in order.
ProgressNotifications(n) ==
    [k \in 1..n |-> [method |-> "notification/progress", params |-> k]]

\* C30: the effective reset-on-progress value of a call is its per-call option
\* if given, else the config value.  When it is true the progress hook is
\* installed and every progress event of the request has been forwarded to
\* the caller's notification callback exactly once, as a notification/progress
\* notification (a caller without that callback is forwarded nothing); when it
\* is false no hook is installed and nothing is forwarded.
C30_ProgressForwardedWhenEnabled ==
    \A id \in DOMAIN calls :
        LET c == calls[id]
            effective == CASE c.resetOption = "true" -> TRUE
                           [] c.resetOption = "false" -> FALSE
                           [] OTHER -> c.configReset
        IN  (c.kind = "makeRequest" /\ FoundSession(id)) =>
            /\ c.resetTimeoutOnProgress = effective
            /\ c.onprogress = effective
            /\ c.forwarded =
                  IF effective /\ c.onNotification
                  THEN ProgressNotifications(c.progress)
                  ELSE << >>

\* The per-call option overrode the config, and both progress events of the
\* request were forwarded before it was answered.
C30_Witness ==
    \E id \in DOMAIN calls :
        /\ FoundSession(id)
        /\ calls[id].resetOption = "true" /\ ~calls[id].configReset
        /\ calls[id].onNotification
        /\ calls[id].progress = 2
        /\ Len(calls[id].forwarded) = 2
        /\ calls[id].st = "returned"

\* An attempt whose transport has been built.
TransportBuilt(a) == a.transport.kind # "none"

\* C31: the transport of an attempt follows from the transport kind alone.
\* stdio: an SSE transport to the proxy's /sse endpoint with
\* transportType=stdio and the command, args and env parameters, without url;
\* sse: an SSE transport to the proxy's /sse endpoint with transportType=sse
\* and url = the target, without command, args and env; streamableHttp: a
\* transport to the target URL itself, with no proxy parameters.
C31_TransportFollowsKind ==
    \A i \in DOMAIN attempts :
        LET t == attempts[i].transport IN
        TransportBuilt(attempts[i]) =>
            CASE cprops.transportType = "stdio" ->
                    /\ t.kind = "SSEClientTransport"
                    /\ t.endpoint = "proxy/sse"
                    /\ t.transportType = "stdio"
                    /\ t.stdioParams
                    /\ t.url = NoUrl
              [] cprops.transportType = "sse" ->
                    /\ t.kind = "SSEClientTransport"
                    /\ t.endpoint = "proxy/sse"
                    /\ t.transportType = "sse"
                    /\ ~t.stdioParams
                    /\ t.url = cprops.sseUrl
              [] OTHER ->
                    /\ t.kind = "StreamableHttpTransport"
                    /\ t.endpoint = cprops.sseUrl
                    /\ t.transportType = ""
                    /\ ~t.stdioParams
                    /\ t.url = NoUrl

\* A stdio connect toward a configured target URL has built its transport and
\* reached the connected state.
C31_Witness ==
    /\ attempts # << >>
    /\ cprops.transportType = "stdio"
    /\ cprops.sseUrl = "https://b"
    /\ TransportBuilt(Cur)
    /\ Cur.outcome = "connected"

\* The step of connect that builds the transport.
BuildsTransport == ctl = "tokens" /\ ctl' = "handshake"

\* C32: whatever the transport kind, the transport connect builds carries an
\* Authorization header if and only if a token is available; the token is the
\* manually entered bearer token when that is non-empty and otherwise the
\* token the OAuth provider holds at that moment.
C32_BearerHeaderIffToken ==
    [][BuildsTransport =>
        LET t == attempts'[Len(attempts')].transport IN
        /\ TransportBuilt(attempts'[Len(attempts')])
        /\ (t.authorization # NoToken) <=>
              (cprops.bearerToken # "" \/ authTokens # NoToken)
        /\ cprops.bearerToken # "" => t.authorization = ManualToken
        /\ cprops.bearerToken = "" => t.authorization = authTokens]_vars

\* A direct connect without a manual token: the first attempt went out with
\* no Authorization header, the retry after the authorization carries the
\* OAuth token.
C32_Witness ==
    /\ Len(attempts) = 2
    /\ cprops.bearerToken = ""
    /\ attempts[1].transport.kind = "StreamableHttpTransport"
    /\ attempts[1].transport.authorization = NoToken
    /\ attempts[2].transport.kind = "StreamableHttpTransport"
    /\ attempts[2].transport.authorization.kind = "oauth"

\* An attempt whose health check has settled.
HealthChecked(a) == a.health # "none"

\* C33: the proxy health check succeeds if and only if the GET completed, its
\* body parsed as JSON and the body's status field is "ok"; no request, a
\* network error, a malformed body, a body without status and any other
\* status make it fail.
C33_HealthOkIffStatusOk ==
    \A i \in DOMAIN attempts :
        LET a == attempts[i] IN
        HealthChecked(a) =>
            /\ a.health \in {"ok", "fail"}
            /\ a.health = "ok" <=> a.healthResponse = "status-ok"
            /\ a.healthResponse \in
                  {"not-sent", "network-error", "malformed-body",
                   "no-status", "status-down"} => a.health = "fail"

\* The proxy answered with a JSON body that holds no status field, and the
\* attempt ended at the health check.
C33_Witness ==
    /\ attempts # << >>
    /\ Cur.healthResponse = "no-status"
    /\ Cur.health = "fail"
    /\ connectionStatus = "error-connecting-to-proxy"

\* The last connect or disconnect call has resolved, and none is running.
ControlResolved == ctl \in {"idle", "connectDone", "disconnectDone"}

\* C34 as stated: once the connect and disconnect calls have resolved, there
\* is a session handle if and only if the status is connected.
C34_Original ==
    ControlResolved =>
        (mcpClient # NoClient <=> connectionStatus = "connected")

\* C35 as stated: whenever the status is not connected, the server
\* capabilities are null.
C35_Original ==
    connectionStatus # "connected" => serverCapabilities = "null"

\* A call is made while the hook holds no session.
CallWithoutSession(kind) ==
    /\ Len(calls') = Len(calls) + 1
    /\ mcpClient = NoClient
    /\ calls'[Len(calls')].kind = kind

\* C36: a call made with no session throws the not-connected error, sends
\* nothing and leaves the history, the status, the capabilities, the session
\* handle and the completion flag as they were; makeRequest issues no toast,
\* sendNotification issues exactly one, carrying the error's message.
C36_NoSessionCallChangesNoState ==
    [][ /\ (CallWithoutSession("makeRequest")
              \/ CallWithoutSession("sendNotification")) =>
            /\ calls'[Len(calls')].st = "threw"
            /\ calls'[Len(calls')].error = NotConnected
            /\ sent' = sent
            /\ requestHistory' = requestHistory
            /\ connectionStatus' = connectionStatus
            /\ serverCapabilities' = serverCapabilities
            /\ completionsSupported' = completionsSupported
            /\ mcpClient' = mcpClient
        /\ CallWithoutSession("makeRequest") => toasts' = toasts
        /\ CallWithoutSession("sendNotification") =>
              toasts' = Append(toasts,
                  [id |-> Len(calls'), by |-> "sendNotification",
                   description |-> NotConnected.msg]) ]_vars

\* With no session, a makeRequest call and then a sendNotification call were
\* made: one toast, from the second, and an empty history.
C36_Witness ==
    /\ Len(calls) = 2
    /\ calls[1].kind = "makeRequest" /\ calls[1].error = NotConnected
    /\ calls[2].kind = "sendNotification" /\ calls[2].error = NotConnected
    /\ sent = {}
    /\ requestHistory = << >>
    /\ Len(toasts) = 1
    /\ toasts[1].by = "sendNotification"
    /\ connectionStatus = "disconnected"

\* The send of notification call `id` settles in this step with a failure
\* that is no McpError.
NotificationFailsUntyped(id) ==
    /\ id \in DOMAIN calls
    /\ calls[id].kind = "sendNotification"
    /\ calls[id].st = "inflight"
    /\ calls'[id].st = "threw"
    /\ calls'[id].rejection.cls # "McpError"

\* C37: when the send of a notification fails with an error that is no
\* McpError, that step leaves the history as it was, issues one toast with the
\* error's message and throws the error.
C37_UntypedFailureLeavesHistory ==
    [][\A id \in DOMAIN calls :
          NotificationFailsUntyped(id) =>
              /\ requestHistory' = requestHistory
              /\ toasts' = Append(toasts,
                    [id |-> id, by |-> "sendNotification",
                     description |-> calls'[id].rejection.msg])
              /\ calls'[id].error = calls'[id].rejection]_vars

\* A first notification was sent and recorded; a second one then failed with
\* a plain Error and the history still holds the first record only.
C37_Witness ==
    /\ Len(calls) = 2
    /\ NotificationSettled(1) /\ calls[1].st = "returned"
    /\ NotificationSettled(2) /\ calls[2].st = "threw"
    /\ calls[2].rejection.cls = "Error"
    /\ Len(requestHistory) = 1
    /\ requestHistory[1].request.id = 1
    /\ Len(toasts) = 1
    /\ toasts[1].id = 2

\* C38 as stated: the chat tab issues at most one tools/list request per
\* connected session.
C38_Original ==
    \A a, b \in chatTab.toolsList : a.session = b.session => a.id = b.id

\* The submissions that have passed the guard of handleSubmit and have not
\* reached its end.
InProgress ==
    {i \in DOMAIN chatTab.submissions : chatTab.submissions[i].pc # "done"}

\* A submit event that handleSubmit turns away while isLoading is true.
SubmitIgnored ==
    /\ chatTab.isLoading
    /\ ~chatTab.ignoredSubmit
    /\ chatTab'.ignoredSubmit

\* C39: at most one submission is in progress at any time, and isLoading is
\* true exactly while one is; a submit while isLoading is true changes
\* nothing; and whenever isLoading is true it becomes false again, whichever
\* way the submission ends.
C39_OneSubmissionAndLoadingEnds ==
    /\ [](Cardinality(InProgress) <= 1)
    /\ [](chatTab.isLoading <=> InProgress # {})
    /\ [][SubmitIgnored =>
            /\ chatTab' = [chatTab EXCEPT !.ignoredSubmit = TRUE]
            /\ UNCHANGED << hookState, callState, authState, ctlState >>]_vars
    /\ (chatTab.isLoading ~> ~chatTab.isLoading)

\* A submission whose tool call failed for want of a session has ended with
\* isLoading false, after a submit made while it was loading was ignored.
C39_Witness ==
    /\ Len(chatTab.submissions) = 1
    /\ chatTab.submissions[1].pc = "done"
    /\ chatTab.submissions[1].call \in DOMAIN calls
    /\ calls[chatTab.submissions[1].call].st = "threw"
    /\ chatTab.ignoredSubmit
    /\ ~chatTab.isLoading

====
